---- MODULE Spec2Model ----
(***************************************************************************)
(* Model of the chatgpt-wrapped dashboard renderers: the treemap layout    *)
(* (squarify / layoutSubdomains / generateTreemap), the quantile estimator *)
(* (calculateQuantiles), the entity canonicaliser (normalizeAndSlice), the *)
(* bar charts and tag clouds (generateSubdomainSections,                   *)
(* generateTopEntitiesSection, generateModelsSection) and, as the          *)
(* specification describes them, the aggregator's distribution builder,    *)
(* streak and monthly trend.                                               *)
(*                                                                         *)
(* JavaScript numbers are modelled as exact rationals <<num, den>> in      *)
(* lowest terms with den > 0; the pair <<0, 0>> is NaN, which every        *)
(* arithmetic operation propagates and every comparison answers FALSE on.  *)
(* The rounding error of IEEE doubles is not modelled.                     *)
(***************************************************************************)
EXTENDS Integers, Sequences, FiniteSets, TLC

VARIABLES op, arg, ret

vars == <<op, arg, ret>>

(***************************************************************************)
(* Bounds of the model                                                     *)
(***************************************************************************)
MaxItems == 3
MaxCount == 3
MaxDomains == 2
MaxDomainCount == 2
MaxSubs == 2
MaxSubCount == 1
MaxBins == 3
MaxBinCount == 2
MaxEntities == 3
MaxRecords == 3
MaxEntityCount == 2

(***************************************************************************)
(* Numbers                                                                 *)
(***************************************************************************)
Abs(n) == IF n < 0 THEN -n ELSE n

RECURSIVE GCD(_, _)
GCD(a, b) == IF b = 0 THEN a ELSE GCD(b, a % b)

NaN == <<0, 0>>

IsNaN(q) == q[2] = 0

Norm(n, d) ==
  IF d = 0 THEN NaN
  ELSE LET g == GCD(Abs(n), Abs(d))
           s == IF d < 0 THEN -1 ELSE 1
       IN <<s * (n \div g), s * (d \div g)>>

R(n) == <<n, 1>>

RAdd(p, q) ==
  IF IsNaN(p) \/ IsNaN(q) THEN NaN
  ELSE LET g == GCD(p[2], q[2])
           l == (p[2] \div g) * q[2]
       IN Norm(p[1] * (l \div p[2]) + q[1] * (l \div q[2]), l)

RNeg(p) == IF IsNaN(p) THEN NaN ELSE <<-p[1], p[2]>>

RSub(p, q) == RAdd(p, RNeg(q))

RMul(p, q) ==
  IF IsNaN(p) \/ IsNaN(q) THEN NaN
  ELSE LET g1 == GCD(Abs(p[1]), q[2])
           g2 == GCD(Abs(q[1]), p[2])
       IN Norm((p[1] \div g1) * (q[1] \div g2), (p[2] \div g2) * (q[2] \div g1))

\* x / 0 is NaN for x = 0; the modelled code never divides a non-zero
\* number by zero (its divisors are sums of the non-negative dividends).
RDiv(p, q) ==
  IF IsNaN(p) \/ IsNaN(q) \/ q[1] = 0 THEN NaN
  ELSE RMul(p, IF q[1] < 0 THEN <<-q[2], -q[1]>> ELSE <<q[2], q[1]>>)

RLt(p, q) == ~IsNaN(p) /\ ~IsNaN(q) /\ RSub(q, p)[1] > 0
RGt(p, q) == RLt(q, p)
RLe(p, q) == ~IsNaN(p) /\ ~IsNaN(q) /\ RSub(q, p)[1] >= 0
RGe(p, q) == RLe(q, p)

\* Math.max(a, b): NaN if either argument is NaN
MathMax(p, q) == IF IsNaN(p) \/ IsNaN(q) THEN NaN ELSE IF RLt(p, q) THEN q ELSE p

\* v || 0 : 0 and NaN are falsy
OrZero(p) == IF IsNaN(p) THEN R(0) ELSE p

RECURSIVE SumCounts(_)
SumCounts(items) ==
  IF Len(items) = 0 THEN 0 ELSE items[1].count + SumCounts(Tail(items))

(***************************************************************************)
(* Treemap: treemap.ts                                                     *)
(***************************************************************************)
COLORS == << "#10a37f", "#0d8c6d", "#75e0c3", "#4fcca8", "#2bb390",
             "#1a9176", "#c4f4e6", "#a8e6d3", "#7dd9c0", "#5cd4b1" >>

\* mutant: the palette is read one entry further on
getColorShifted(index) == COLORS[((index + 1) % Len(COLORS)) + 1]

getColor(index) == COLORS[(index % Len(COLORS)) + 1]

padding == 4
minInnerWidth == 60
minInnerHeight == 40
canvasWidth == 900
canvasHeight == 500
topDomainsLimit == 10
subColorOffset == 10

\* ratio = item.count / totalValue
itemRatio(item, totalValue) == RDiv(R(item.count), R(totalValue))

\* mutant: a remaining square is cut across the width too
isHorizontalSplitOrEqual(cur) == RGe(cur.w, cur.h)

\* the branch test: remainingWidth > remainingHeight
isHorizontalSplit(cur) == RGt(cur.w, cur.h)

\* width and height of the slice cut for one item
sliceWidth(cur, ratio) == IF isHorizontalSplit(cur) THEN RMul(cur.w, ratio) ELSE cur.w
sliceHeight(cur, ratio) == IF isHorizontalSplit(cur) THEN cur.h ELSE RMul(cur.h, ratio)

\* mutant: the cursor is not moved past the slice
advanceCursorStuck(cur, rectWidth, rectHeight) ==
  IF isHorizontalSplit(cur)
  THEN [cur EXCEPT !.w = RSub(@, rectWidth)]
  ELSE [cur EXCEPT !.h = RSub(@, rectHeight)]

\* currentX += rectWidth; remainingWidth -= rectWidth  (or the Y/height pair)
advanceCursor(cur, rectWidth, rectHeight) ==
  IF isHorizontalSplit(cur)
  THEN [cur EXCEPT !.x = RAdd(@, rectWidth), !.w = RSub(@, rectWidth)]
  ELSE [cur EXCEPT !.y = RAdd(@, rectHeight), !.h = RSub(@, rectHeight)]

RECURSIVE squarifyFrom(_, _, _, _, _)
RECURSIVE layoutSubdomains(_, _, _, _, _, _)

\* the forEach body for items[index .. ], index counted from 1
squarifyFrom(items, index, cur, totalValue, colorOffset) ==
  IF index > Len(items) THEN << >>
  ELSE LET item == items[index]
           ratio == itemRatio(item, totalValue)
           rectWidth == sliceWidth(cur, ratio)
           rectHeight == sliceHeight(cur, ratio)
           hasSubs == Len(item.subdomains) > 0
           rect == [ x |-> cur.x, y |-> cur.y,
                     width |-> rectWidth, height |-> rectHeight,
                     name |-> item.name, count |-> item.count,
                     percentage |-> OrZero(item.percentage),
                     color |-> getColor(colorOffset + index - 1),
                     \* children: undefined is hasChildren = FALSE
                     hasChildren |-> hasSubs,
                     children |-> IF hasSubs
                                  THEN layoutSubdomains(item.subdomains, cur.x, cur.y,
                                         rectWidth, rectHeight, colorOffset + index - 1)
                                  ELSE << >> ]
       IN <<rect>> \o squarifyFrom(items, index + 1,
                         advanceCursor(cur, rectWidth, rectHeight),
                         totalValue, colorOffset)

squarify(items, x, y, width, height, colorOffset) ==
  IF Len(items) = 0 THEN << >>
  ELSE squarifyFrom(items, 1, [x |-> x, y |-> y, w |-> width, h |-> height],
                    SumCounts(items), colorOffset)

\* innerX, innerY, innerWidth, innerHeight
innerRect(parentX, parentY, parentWidth, parentHeight) ==
  [ x |-> RAdd(parentX, R(padding)),
    y |-> RAdd(parentY, R(padding)),
    w |-> MathMax(R(0), RSub(parentWidth, R(padding * 2))),
    h |-> MathMax(R(0), RSub(parentHeight, R(padding * 2))) ]

\* mutant: subdomains are left out only when both sides are too short
tooSmallBothSides(inner) ==
  RLt(inner.w, R(minInnerWidth)) /\ RLt(inner.h, R(minInnerHeight))

\* innerWidth < 60 || innerHeight < 40
tooSmall(inner) ==
  RLt(inner.w, R(minInnerWidth)) \/ RLt(inner.h, R(minInnerHeight))

\* mutant: the subdomain record is passed on whole, its own subdomains included
subItemKeepingSubdomains(sub, totalSubCount) ==
  [ name |-> sub.name, count |-> sub.count,
    percentage |-> RMul(RDiv(R(sub.count), R(totalSubCount)), R(100)),
    subdomains |-> IF "subdomains" \in DOMAIN sub THEN sub.subdomains ELSE << >> ]

\* sub => ({name, count, percentage: (sub.count / totalSubCount) * 100})
subItem(sub, totalSubCount) ==
  [ name |-> sub.name, count |-> sub.count,
    percentage |-> RMul(RDiv(R(sub.count), R(totalSubCount)), R(100)),
    subdomains |-> << >> ]

layoutSubdomains(subdomains, parentX, parentY, parentWidth, parentHeight, colorOffset) ==
  IF Len(subdomains) = 0 THEN << >>
  ELSE LET inner == innerRect(parentX, parentY, parentWidth, parentHeight)
       IN IF tooSmall(inner)
          THEN << >>
          ELSE LET totalSubCount == SumCounts(subdomains)
               IN squarify([i \in 1..Len(subdomains) |-> subItem(subdomains[i], totalSubCount)],
                           inner.x, inner.y, inner.w, inner.h,
                           colorOffset + subColorOffset)

\* mutant: every domain is laid out
generateTreemapAllDomains(domains) ==
  squarify(domains, R(0), R(0), R(canvasWidth), R(canvasHeight), 0)

\* the layout part of generateTreemap: squarify(domains.slice(0, 10), 0, 0, 900, 500)
generateTreemap(domains) ==
  squarify(SubSeq(domains, 1, IF Len(domains) < topDomainsLimit THEN Len(domains) ELSE topDomainsLimit),
           R(0), R(0), R(canvasWidth), R(canvasHeight), 0)

(***************************************************************************)
(* Quantile estimator: utils/calculations.ts (listed in AI_README.md)      *)
(***************************************************************************)
\* Number(v.toFixed(1)): the nearest multiple of 1/10, ties away from zero
toFixed1(q) ==
  IF IsNaN(q) THEN NaN
  ELSE LET s == IF q[1] < 0 THEN -1 ELSE 1
       IN Norm(s * ((20 * Abs(q[1]) + q[2]) \div (2 * q[2])), 10)

\* mutant: the sum of the edges, not halved
binMidpointNotHalved(bin) == RAdd(bin.bin_start, bin.bin_end)

\* binMidpoint = (bin.bin_start + bin.bin_end) / 2
binMidpoint(bin) == RDiv(RAdd(bin.bin_start, bin.bin_end), R(2))

\* totalCount after the first loop
RECURSIVE totalCount(_)
totalCount(dist) ==
  IF Len(dist) = 0 THEN 0 ELSE dist[1].count + totalCount(Tail(dist))

\* weightedSum after the first loop
RECURSIVE weightedSum(_)
weightedSum(dist) ==
  IF Len(dist) = 0 THEN R(0)
  ELSE RAdd(RMul(binMidpoint(dist[1]), R(dist[1].count)), weightedSum(Tail(dist)))

\* mutant: the mean is taken over the number of bins
weightedAverageOverBins(dist) ==
  IF totalCount(dist) > 0 THEN RDiv(weightedSum(dist), R(Len(dist))) ELSE R(0)

\* const avg = totalCount > 0 ? weightedSum / totalCount : 0
weightedAverage(dist) ==
  IF totalCount(dist) > 0 THEN RDiv(weightedSum(dist), R(totalCount(dist))) ELSE R(0)

\* mutant: the position is measured from the far edge of the bin
interpolateReversed(bin, targetCount, prevCumulative) ==
  LET positionInBin == RDiv(RSub(targetCount, prevCumulative), R(bin.count))
  IN RSub(bin.bin_end, RMul(positionInBin, RSub(bin.bin_end, bin.bin_start)))

\* mutant: the position is measured from the running count after the bin
interpolateFromCumulative(bin, targetCount, prevCumulative) ==
  LET positionInBin ==
        RDiv(RSub(targetCount, RAdd(prevCumulative, R(bin.count))), R(bin.count))
  IN RAdd(bin.bin_start, RMul(positionInBin, RSub(bin.bin_end, bin.bin_start)))

\* positionInBin and interpolatedValue
interpolate(bin, targetCount, prevCumulative) ==
  LET positionInBin == RDiv(RSub(targetCount, prevCumulative), R(bin.count))
  IN RAdd(bin.bin_start, RMul(positionInBin, RSub(bin.bin_end, bin.bin_start)))

\* mutant: the comparison the other way round
reachesTargetSwapped(cumulativeCount, targetCount) == RLe(cumulativeCount, targetCount)

\* if (cumulativeCount >= targetCount)
reachesTarget(cumulativeCount, targetCount) == RGe(cumulativeCount, targetCount)

\* the for loop of findQuantile from bin i (counted from 1) on
RECURSIVE findQuantileFrom(_, _, _, _)
findQuantileFrom(dist, i, prevCumulative, targetCount) ==
  IF i > Len(dist) THEN dist[Len(dist)].bin_end
  ELSE LET cumulativeCount == RAdd(prevCumulative, R(dist[i].count))
       IN IF reachesTarget(cumulativeCount, targetCount)
          THEN interpolate(dist[i], targetCount, prevCumulative)
          ELSE findQuantileFrom(dist, i + 1, cumulativeCount, targetCount)

\* the bin at which the for loop of findQuantile returns, counted from 1;
\* 0 when the loop ends and the statement after it returns
RECURSIVE stopBinFrom(_, _, _, _)
stopBinFrom(dist, i, prevCumulative, targetCount) ==
  IF i > Len(dist) THEN 0
  ELSE LET cumulativeCount == RAdd(prevCumulative, R(dist[i].count))
       IN IF reachesTarget(cumulativeCount, targetCount)
          THEN i
          ELSE stopBinFrom(dist, i + 1, cumulativeCount, targetCount)

stopBin(dist, targetPercentile) ==
  stopBinFrom(dist, 1, R(0), RMul(targetPercentile, R(totalCount(dist))))

\* targetCount = targetPercentile * totalCount
findQuantile(dist, targetPercentile) ==
  findQuantileFrom(dist, 1, R(0), RMul(targetPercentile, R(totalCount(dist))))

pct(n) == Norm(n, 100)

\* d.defined = FALSE is a missing distribution (!dist)
calculateQuantiles(d) ==
  IF ~d.defined \/ Len(d.bins) = 0
  THEN [avg |-> R(0), q5 |-> R(0), q25 |-> R(0), q75 |-> R(0), q95 |-> R(0), q99 |-> R(0)]
  ELSE [ avg |-> toFixed1(weightedAverage(d.bins)),
         q5 |-> toFixed1(findQuantile(d.bins, pct(5))),
         q25 |-> toFixed1(findQuantile(d.bins, pct(25))),
         q75 |-> toFixed1(findQuantile(d.bins, pct(75))),
         q95 |-> toFixed1(findQuantile(d.bins, pct(95))),
         q99 |-> toFixed1(findQuantile(d.bins, pct(99))) ]

(***************************************************************************)
(* Entity canonicaliser: normalizeAndSlice in generateEntitiesSection      *)
(* A name is a sequence of one-character strings.                          *)
(***************************************************************************)
LowerCaseLetters == {"a", "b", "c", "e", "i", "n", "o", "p"}
UpperCaseLetters == {"A", "B", "C", "E", "I", "N", "O", "P"}
Digits == {"1"}

toLowerCaseChar(c) ==
  CASE c = "A" -> "a" [] c = "B" -> "b" [] c = "C" -> "c" [] c = "E" -> "e" [] c = "I" -> "i"
    [] c = "N" -> "n" [] c = "O" -> "o" [] c = "P" -> "p" [] OTHER -> c

toUpperCaseChar(c) ==
  CASE c = "a" -> "A" [] c = "b" -> "B" [] c = "c" -> "C" [] c = "e" -> "E" [] c = "i" -> "I"
    [] c = "n" -> "N" [] c = "o" -> "O" [] c = "p" -> "P" [] OTHER -> c

\* item.name.toLowerCase()
toLowerCase(name) == [k \in 1..Len(name) |-> toLowerCaseChar(name[k])]

\* item.name[0] === item.name[0].toUpperCase(); only evaluated for a
\* non-empty name (item.name[0] is undefined for "", and the call throws)
keepsOwnName(name) == name[1] = toUpperCaseChar(name[1])

\* index of the map entry with this key, 0 if map.has(key) is false
entryIndex(map, key) ==
  IF \E k \in 1..Len(map) : map[k].key = key
  THEN CHOOSE k \in 1..Len(map) : map[k].key = key
  ELSE 0

\* mutant: a colliding entry replaces the stored count
mergeCountOverwrite(existingCount, itemCount) == itemCount

\* existing.count += item.count
mergeCount(existingCount, itemCount) == existingCount + itemCount

\* mutant: the map stores the input entry itself, not a copy of it
newEntryAliased(lower, item, i) ==
  [key |-> lower, name |-> item.name, count |-> item.count, ref |-> i]

\* map.set(lower, { ...item }): the stored entry is a fresh object; ref names
\* the input entry an object is (0 for an object of its own)
newEntry(lower, item, i) ==
  [key |-> lower, name |-> item.name, count |-> item.count, ref |-> 0]

\* the for loop over items[i ..]; the Map is kept as the sequence of its
\* entries in insertion order; the result is "TypeError" marked by threw
RECURSIVE foldItems(_, _, _)
foldItems(items, i, map) ==
  IF i > Len(items) THEN [threw |-> FALSE, map |-> map]
  ELSE LET item == items[i]
           lower == toLowerCase(item.name)
           k == entryIndex(map, lower)
       IN IF k # 0
          THEN IF Len(item.name) = 0
               THEN [threw |-> TRUE, map |-> map]
               ELSE foldItems(items, i + 1,
                      [map EXCEPT ![k] =
                         [ key |-> lower,
                           name |-> IF keepsOwnName(item.name) THEN item.name ELSE @.name,
                           count |-> mergeCount(@.count, item.count),
                           ref |-> @.ref ]])
          ELSE foldItems(items, i + 1,
                 Append(map, newEntry(lower, item, i)))

\* mutant: an entry is placed before the entries of equal count
RECURSIVE insertByCountTiesReversed(_, _)
insertByCountTiesReversed(sorted, e) ==
  IF Len(sorted) = 0 THEN <<e>>
  ELSE IF sorted[1].count > e.count
       THEN <<sorted[1]>> \o insertByCountTiesReversed(Tail(sorted), e)
       ELSE <<e>> \o sorted

\* position at which a stable descending sort places e in the sorted seq
RECURSIVE insertByCount(_, _)
insertByCount(sorted, e) ==
  IF Len(sorted) = 0 THEN <<e>>
  ELSE IF sorted[1].count >= e.count
       THEN <<sorted[1]>> \o insertByCount(Tail(sorted), e)
       ELSE <<e>> \o sorted

\* Array.prototype.sort((a, b) => b.count - a.count), a stable sort
RECURSIVE sortByCountDesc(_, _)
sortByCountDesc(list, n) ==
  IF n = 0 THEN << >> ELSE insertByCount(sortByCountDesc(list, n - 1), list[n])

\* Array.from(map.values()): the entries without their keys
mapValues(map) == [k \in 1..Len(map) |-> [name |-> map[k].name, count |-> map[k].count]]

\* mutant: the list is not cut
sliceKeepsAll(list, limit) == list

\* .slice(0, limit)
sliceTo(list, limit) == SubSeq(list, 1, IF Len(list) < limit THEN Len(list) ELSE limit)

normalizeAndSlice(items, limit) ==
  LET folded == foldItems(items, 1, << >>)
  IN IF folded.threw
     THEN [threw |-> TRUE, value |-> << >>]
     ELSE [ threw |-> FALSE,
            value |-> sliceTo(sortByCountDesc(mapValues(folded.map), Len(folded.map)), limit) ]

\* the caller's items once the loop has run: an input entry the map holds
\* by reference carries what the loop wrote to it
itemsAfterFold(items, map) ==
  [i \in 1..Len(items) |->
     IF \E k \in 1..Len(map) : map[k].ref = i
     THEN LET k == CHOOSE k \in 1..Len(map) : map[k].ref = i
          IN [items[i] EXCEPT !.name = map[k].name, !.count = map[k].count]
     ELSE items[i]]

(***************************************************************************)
(* Arrays by reference: elems are the entries, ref names the input array   *)
(* the array is (0 for an array of its own). sort and push write to the    *)
(* array they are called on; spread, filter and slice make a new one.      *)
(***************************************************************************)
inputArray(elems, ref) == [elems |-> elems, ref |-> ref]

\* mutant: the array itself, not a copy
sameArray(a) == a

\* [...items]
copyOf(a) == [elems |-> a.elems, ref |-> 0]

\* .slice(from - 1, to)
sliceArray(a, from, to) ==
  [elems |-> SubSeq(a.elems, from, IF Len(a.elems) < to THEN Len(a.elems) ELSE to), ref |-> 0]

\* .sort((a, b) => b.count - a.count): sorts the array in place
sortArray(a) == [a EXCEPT !.elems = sortByCountDesc(@, Len(@))]

\* .push(e): appends to the array in place
pushArray(a, e) == [a EXCEPT !.elems = Append(@, e)]

\* what the input array ref holds after a call that wrote to array a
writtenBack(original, ref, a) == IF a.ref = ref THEN a.elems ELSE original

(***************************************************************************)
(* Bar charts and tag clouds: generateGenericBars,                         *)
(* generateSubdomainSections, generateTopEntitiesSection,                  *)
(* generateModelsSection. A renderer yields the structure it renders       *)
(* (value) and the input lists as the call leaves them (after).            *)
(***************************************************************************)
\* name.replace(/_/g, " ")
replaceUnderscores(name) ==
  [k \in 1..Len(name) |-> IF name[k] = "_" THEN " " ELSE name[k]]

\* Math.max(...data.map(d => d.count)) of a non-empty list
RECURSIVE maxCountOf(_)
maxCountOf(data) ==
  IF Len(data) = 1 THEN data[1].count
  ELSE LET rest == maxCountOf(Tail(data))
       IN IF data[1].count > rest THEN data[1].count ELSE rest

\* one bars-container, or nothing ("") for an empty list
generateGenericBars(data, title) ==
  IF Len(data) = 0 THEN << >>
  ELSE LET maxCount == maxCountOf(data)
       IN << [ title |-> title,
               bars |-> [k \in 1..Len(data) |->
                          [ name |-> replaceUnderscores(data[k].name),
                            count |-> data[k].count,
                            percentage |-> RMul(RDiv(R(data[k].count), R(maxCount)), R(100)) ]] ] >>

maxSections == 9
maxTopSubs == 4
otherName == <<"o", "t", "h", "e", "r">>

\* indices of the domains with at least one subdomain, the first nine
domainsWithSubs(domains) ==
  LET idx == SelectSeq([i \in 1..Len(domains) |-> i],
                       LAMBDA i : Len(domains[i].subdomains) > 0)
  IN SubSeq(idx, 1, IF Len(idx) < maxSections THEN Len(idx) ELSE maxSections)

\* mutant: the subdomains after the fourth are left out
topSubsWithoutOther(domain, d) ==
  LET subs == inputArray(domain.subdomains, d)
  IN IF Len(subs.elems) <= maxTopSubs
     THEN subs
     ELSE sliceArray(subs, 1, maxTopSubs)

\* topSubs of domain d: the subdomains array itself when it holds at most
\* four entries, else a slice of four with "other" pushed onto it
topSubsOf(domain, d) ==
  LET subs == inputArray(domain.subdomains, d)
  IN IF Len(subs.elems) <= maxTopSubs
     THEN subs
     ELSE pushArray(sliceArray(subs, 1, maxTopSubs),
                    [name |-> otherName, count |-> SumCounts(sliceArray(subs, maxTopSubs + 1, Len(subs.elems)).elems)])

RECURSIVE sectionsOf(_, _, _)
sectionsOf(domains, shown, k) ==
  IF k > Len(shown) THEN << >>
  ELSE LET d == shown[k]
       IN generateGenericBars(topSubsOf(domains[d], d).elems, replaceUnderscores(domains[d].name))
            \o sectionsOf(domains, shown, k + 1)

generateSubdomainSections(domains) ==
  LET shown == domainsWithSubs(domains)
  IN [ value |-> sectionsOf(domains, shown, 1),
       after |-> [d \in 1..Len(domains) |->
                    IF \E k \in 1..Len(shown) : shown[k] = d
                    THEN [domains[d] EXCEPT
                            !.subdomains = writtenBack(@, d, topSubsOf(domains[d], d))]
                    ELSE domains[d]] ]

maxTags == 25
topTags == 3

\* sortedItems of renderTagGroup for the list of group g
sortedCopy(items, g) == sortArray(copyOf(inputArray(items, g)))

\* renderTagGroup: nothing ("") for a missing or empty list, else the
\* tag pills of the first 25 entries of the sorted copy
renderTagGroup(group, g) ==
  IF ~group.defined \/ Len(group.items) = 0 THEN << >>
  ELSE LET sortedItems == sliceArray(sortedCopy(group.items, g), 1, maxTags).elems
       IN [k \in 1..Len(sortedItems) |->
             [name |-> sortedItems[k].name, count |-> sortedItems[k].count,
              isTop |-> k - 1 < topTags]]

\* tops: the five lists of stats.all_time_tops in the order they are rendered
generateTopEntitiesSection(tops) ==
  [ value |-> [g \in 1..Len(tops) |-> renderTagGroup(tops[g], g)],
    after |-> [g \in 1..Len(tops) |->
                 IF ~tops[g].defined \/ Len(tops[g].items) = 0 THEN tops[g]
                 ELSE [tops[g] EXCEPT
                         !.items = writtenBack(@, g, sortedCopy(tops[g].items, g))]] ]

\* digits of parseInt
digitValue(c) ==
  CASE c = "0" -> 0 [] c = "1" -> 1 [] c = "2" -> 2 [] c = "3" -> 3 [] c = "4" -> 4
    [] c = "5" -> 5 [] c = "6" -> 6 [] c = "7" -> 7 [] c = "8" -> 8 [] c = "9" -> 9
    [] OTHER -> -1

\* parseInt(text): the number its leading digits spell, NaN (nan) without one
RECURSIVE parseDigits(_, _, _)
parseDigits(text, k, acc) ==
  IF k > Len(text) \/ digitValue(text[k]) < 0 THEN acc
  ELSE parseDigits(text, k + 1, 10 * acc + digitValue(text[k]))

parseInt(text) ==
  IF Len(text) = 0 \/ digitValue(text[1]) < 0
  THEN [nan |-> TRUE, value |-> 0]
  ELSE [nan |-> FALSE, value |-> parseDigits(text, 1, 0)]

months == << "Jan", "Feb", "Mar", "Apr", "May", "Jun",
             "Jul", "Aug", "Sep", "Oct", "Nov", "Dec" >>

\* formatMonth: month is "year-m", kept as its two parts; the result is
\* months[parseInt(m) - 1], or month itself when there is no such entry
formatMonth(month) ==
  LET n == parseInt(month.m)
  IN IF ~n.nan /\ n.value - 1 >= 0 /\ n.value - 1 < Len(months)
     THEN [named |-> TRUE, text |-> months[n.value]]
     ELSE [named |-> FALSE, text |-> month]

startsWith(name, prefix) ==
  Len(name) >= Len(prefix) /\ SubSeq(name, 1, Len(prefix)) = prefix

\* the first of the prefixes "gpt-4o", "gpt-4", "o1", "gpt-5-1", "gpt-5" the
\* name starts with, else the name itself
cleanName(modelName) ==
  LET prefixes == << <<"g", "p", "t", "-", "4", "o">>, <<"g", "p", "t", "-", "4">>,
                     <<"o", "1">>, <<"g", "p", "t", "-", "5", "-", "1">>,
                     <<"g", "p", "t", "-", "5">> >>
      hits == { k \in 1..Len(prefixes) : startsWith(modelName, prefixes[k]) }
  IN IF hits = {} THEN modelName
     ELSE prefixes[CHOOSE k \in hits : \A j \in hits : k <= j]

minModelCount == 10
maxModels == 15

\* .filter(m => m.count >= 10): a new array
filterByMinCount(a) ==
  [elems |-> SelectSeq(a.elems, LAMBDA m : m.count >= minModelCount), ref |-> 0]

\* stats.models.filter(...).sort(...): the array slice(0, 15) is taken from
sortedModels(models) == sortArray(filterByMinCount(inputArray(models, 1)))

\* Object.entries(m.models): a new array of the [name, count] pairs
objectEntries(models) == [elems |-> models, ref |-> 0]

\* entries.sort((a, b) => b[1] - a[1])
sortedEntries(m) == sortArray(objectEntries(m.models))

monthlyTopModel(m) ==
  IF Len(m.models) = 0
  THEN [month |-> formatMonth(m.month), model |-> <<"n", "/", "a">>]
  ELSE [month |-> formatMonth(m.month), model |-> cleanName(sortedEntries(m).elems[1].name)]

generateModelsSection(stats) ==
  [ value |-> [ bars |-> generateGenericBars(sliceArray(sortedModels(stats.models), 1, maxModels).elems,
                                             "Overall Model Usage"),
                timeline |-> [t \in 1..Len(stats.model_timeline) |->
                                monthlyTopModel(stats.model_timeline[t])] ],
    after |-> [ models |-> writtenBack(stats.models, 1, sortedModels(stats.models)),
                model_timeline |->
                  [t \in 1..Len(stats.model_timeline) |->
                     IF Len(stats.model_timeline[t].models) = 0 THEN stats.model_timeline[t]
                     ELSE [stats.model_timeline[t] EXCEPT
                             !.models = writtenBack(@, t + 1,
                                          sortedEntries(stats.model_timeline[t]))]] ] ]

(***************************************************************************)
(* Inputs                                                                  *)
(***************************************************************************)
SeqsUpTo(S, n) == UNION { [1..k -> S] : k \in 0..n }

\* the spec's worked example, counts [50,30,20]
ExampleCounts == <<50, 30, 20>>

FlatCountSeqs == SeqsUpTo(0..MaxCount, MaxItems) \cup {ExampleCounts}

SubCountSeqs == SeqsUpTo(0..MaxSubCount, MaxSubs)

\* percentage as the statistics file carries it: 100 * count / total
pctOf(c, total) == RMul(RDiv(R(c), R(total)), R(100))

RECURSIVE SumSeq(_)
SumSeq(s) == IF Len(s) = 0 THEN 0 ELSE s[1] + SumSeq(Tail(s))

nameOf(prefix, i) == <<prefix, i>>

mkSubs(cs) == [i \in 1..Len(cs) |-> [name |-> nameOf("sub", i), count |-> cs[i]]]

mkFlat(cs) ==
  [i \in 1..Len(cs) |-> [ name |-> nameOf("dom", i), count |-> cs[i],
                          percentage |-> pctOf(cs[i], SumSeq(cs)),
                          subdomains |-> << >> ]]

\* the domain lists with subdomains: domain i of a list carries the
\* subdomain counts subs, the other domains carry none
withSubdomains(items, i, subs) == [items EXCEPT ![i].subdomains = mkSubs(subs)]

FlatItems == { mkFlat(cs) : cs \in FlatCountSeqs }

\* a domain's count is 1 or MaxDomainCount
DomainCountSeqs == SeqsUpTo({1, MaxDomainCount}, MaxDomains) \ { << >> }

NestedItems ==
  UNION { { withSubdomains(mkFlat(cs), i, subs) :
              i \in 1..Len(cs), subs \in SubCountSeqs \ { << >> } } :
          cs \in DomainCountSeqs }

\* eleven ranked domains, one more than the treemap shows; the first and
\* the third carry two subdomains each
ElevenDomains ==
  withSubdomains(withSubdomains(mkFlat(<<8, 1, 1, 0, 0, 0, 0, 0, 0, 0, 0>>), 1, <<1, 1>>),
                 3, <<1, 1>>)

ItemLists == FlatItems \cup NestedItems

\* one domain with two subdomains whose records carry subdomains themselves
DeepDomains ==
  [ mkFlat(<<2>>) EXCEPT
      ![1].subdomains = [ i \in 1..2 |-> [ name |-> nameOf("sub", i), count |-> 1,
                                            subdomains |-> mkSubs(<<1, 1>>) ] ] ]

\* rectangles squarify is called on: <<x, y, width, height>>
SmallCanvas == <<0, 0, 200, 100>>
Canvases == { SmallCanvas, <<0, 0, 900, 500>>, <<10, 20, 136, 96>> }

\* rectangles at the edge of the room subdomains need: inner 60x40, 59x40
\* and 60x39
BoundaryCanvases == { <<0, 0, 68, 48>>, <<0, 0, 67, 48>>, <<0, 0, 68, 47>> }

\* histograms: ascending contiguous bins from BinOrigin, of the widths the
\* statistics file uses, with counts 0..MaxBinCount
BinOrigins == {0, 5}
BinWidths == {1, 10}

RECURSIVE edgeAt(_, _, _)
edgeAt(origin, widths, k) ==
  IF k = 0 THEN origin ELSE edgeAt(origin, widths, k - 1) + widths[k]

mkDist(origin, widths, counts) ==
  [i \in 1..Len(widths) |-> [ bin_start |-> R(edgeAt(origin, widths, i - 1)),
                              bin_end |-> R(edgeAt(origin, widths, i)),
                              count |-> counts[i] ]]

Distributions ==
  UNION { { mkDist(o, w, c) : o \in BinOrigins, w \in [1..n -> BinWidths],
                              c \in [1..n -> 0..MaxBinCount] } : n \in 0..MaxBins }

\* entity names: the empty name, two case variants of one word and a name
\* that starts with a digit; an entity's count is 1 or MaxEntityCount
EntityNames == { << >>, <<"a">>, <<"A">>, <<"1">> }

EntityItems == [name : EntityNames, count : {1, MaxEntityCount}]

\* the spec's worked example [{"OpenAI",3},{"openai",2}]
ExampleEntities ==
  << [name |-> <<"O", "p", "e", "n", "A", "I">>, count |-> 3],
     [name |-> <<"o", "p", "e", "n", "a", "i">>, count |-> 2] >>

\* the spec's top-K example [{"a",10},{"b",10},{"c",5}]
TopKExample ==
  << [name |-> <<"a">>, count |-> 10], [name |-> <<"b">>, count |-> 10],
     [name |-> <<"c">>, count |-> 5] >>

\* the four case variants of one two-letter word, and the lists of one or
\* two of them
VariantNames == { <<"a", "b">>, <<"a", "B">>, <<"A", "b">>, <<"A", "B">> }

VariantLists ==
  { <<[name |-> n, count |-> 1]>> : n \in VariantNames }
    \cup { <<[name |-> n1, count |-> 1], [name |-> n2, count |-> 1]>> :
              n1 \in VariantNames, n2 \in VariantNames }

EntityLists ==
  SeqsUpTo(EntityItems, MaxEntities) \cup {ExampleEntities, TopKExample}
    \cup VariantLists

\* the limits of the calls: the dashboard's own (5) and one that truncates
entityLimit == 5
Limits == {2, entityLimit}

\* names of bar and tag entries: a prefix, an underscore and a letter
Alphabet ==
  << "a", "b", "c", "d", "e", "f", "g", "h", "i", "j", "k", "l", "m",
     "n", "o", "p", "q", "r", "s", "t", "u", "v", "w", "x", "y", "z" >>

charName(prefix, i) == <<prefix, "_", Alphabet[i]>>

mkNamed(prefix, cs) == [i \in 1..Len(cs) |-> [name |-> charName(prefix, i), count |-> cs[i]]]

\* subdomain counts of one domain: none, one, four, five and six subdomains
SectionSubCounts ==
  { << >>, <<2>>, <<1, 2, 3, 4>>, <<5, 4, 3, 2, 1>>, <<6, 5, 4, 3, 2, 1>> }

mkSectionDomains(subs) ==
  [d \in 1..Len(subs) |-> [ name |-> charName("d", d), count |-> SumSeq(subs[d]),
                            subdomains |-> mkNamed("s", subs[d]) ]]

\* eleven domains, all but the first with a subdomain: one more than the
\* nine sections shown
ElevenSectionDomains ==
  mkSectionDomains([d \in 1..11 |-> IF d = 1 THEN << >> ELSE <<2>>])

SectionDomains ==
  { mkSectionDomains(subs) : subs \in SeqsUpTo(SectionSubCounts, MaxDomains) }
    \cup {ElevenSectionDomains}

\* an all_time_tops list: missing, or present with SubCountSeqs counts, or
\* twenty-six entries in ascending order of count
missingList == [defined |-> FALSE, items |-> << >>]

presentList(cs) == [defined |-> TRUE, items |-> mkNamed("t", cs)]

TagGroups ==
  {missingList} \cup { presentList(cs) : cs \in SubCountSeqs }
    \cup { presentList([i \in 1..26 |-> i]) }

OtherTagGroups == { missingList, presentList(<< >>), presentList(<<1, 2>>) }

AllTimeTops == { <<t, o, o, o, o>> : t \in TagGroups, o \in OtherTagGroups }

\* stats.models: counts around the threshold 10, and sixteen models in
\* ascending order of count
ModelLists ==
  { mkNamed("m", cs) : cs \in SeqsUpTo({9, 10, 12}, MaxItems) }
    \cup { mkNamed("m", [i \in 1..16 |-> 9 + i]) }

\* stats.model_timeline: empty; March with gpt-4o-mini 3 and gpt-5 5; a month
\* "2025-13" without models and a December with claude 1
Timelines ==
  { << >>,
    << [ month |-> [year |-> "2025", m |-> <<"0", "3">>],
         models |-> << [ name |-> <<"g", "p", "t", "-", "4", "o", "-", "m", "i", "n", "i">>,
                         count |-> 3 ],
                       [name |-> <<"g", "p", "t", "-", "5">>, count |-> 5] >> ] >>,
    << [ month |-> [year |-> "2025", m |-> <<"1", "3">>], models |-> << >> ],
       [ month |-> [year |-> "2025", m |-> <<"1", "2">>],
         models |-> << [name |-> <<"c", "l", "a", "u", "d", "e">>, count |-> 1] >> ] >> }

ModelStats == [models : ModelLists, model_timeline : Timelines]

(***************************************************************************)
(* Aggregator, as the specification describes it (sections 4.2 and 4.5):   *)
(* the distribution builder, the streak and the monthly trend              *)
(***************************************************************************)
RECURSIVE minOf(_)
minOf(values) ==
  IF Len(values) = 1 THEN values[1]
  ELSE LET rest == minOf(Tail(values)) IN IF values[1] < rest THEN values[1] ELSE rest

RECURSIVE maxOf(_)
maxOf(values) ==
  IF Len(values) = 1 THEN values[1]
  ELSE LET rest == maxOf(Tail(values)) IN IF values[1] > rest THEN values[1] ELSE rest

\* width = max(1, ceil((max - min) / bin_count)); ceil(a / b) of integers
\* a >= 0, b > 0 is (a + b - 1) div b
binWidth(lo, hi, binCount) ==
  LET w == (hi - lo + binCount - 1) \div binCount IN IF w < 1 THEN 1 ELSE w

\* mutant: the bin index is not clamped to the last bin
binIndexUnclamped(value, lo, width, binCount) == (value - lo) \div width

\* floor((value - min) / width), clamped to the last bin; bins count from 0
binIndex(value, lo, width, binCount) ==
  LET i == (value - lo) \div width
  IN IF i > binCount - 1 THEN binCount - 1 ELSE i

\* number of the values assigned to bin i
RECURSIVE countInBin(_, _, _, _, _)
countInBin(values, i, lo, width, binCount) ==
  IF Len(values) = 0 THEN 0
  ELSE (IF binIndex(values[1], lo, width, binCount) = i THEN 1 ELSE 0)
         + countInBin(Tail(values), i, lo, width, binCount)

\* the empty input gives a single zero-width, zero-count bin
buildDistribution(values, binCount) ==
  IF Len(values) = 0
  THEN << [bin_start |-> 0, bin_end |-> 0, count |-> 0, percentage |-> R(0)] >>
  ELSE LET lo == minOf(values)
           width == binWidth(lo, maxOf(values), binCount)
       IN [b \in 1..binCount |->
             LET count == countInBin(values, b - 1, lo, width, binCount)
             IN [ bin_start |-> lo + (b - 1) * width,
                  bin_end |-> lo + b * width,
                  count |-> count,
                  percentage |-> pctOf(count, Len(values)) ]]

\* calendar dates are <<year, month, day>>
isLeapYear(y) == (y % 4 = 0 /\ y % 100 # 0) \/ y % 400 = 0

daysInMonth(y, m) ==
  IF m = 2 THEN (IF isLeapYear(y) THEN 29 ELSE 28)
  ELSE IF m \in {4, 6, 9, 11} THEN 30 ELSE 31

\* the calendar day after date
nextDay(date) ==
  IF date[3] < daysInMonth(date[1], date[2]) THEN <<date[1], date[2], date[3] + 1>>
  ELSE IF date[2] < 12 THEN <<date[1], date[2] + 1, 1>>
  ELSE <<date[1] + 1, 1, 1>>

\* mutant: a later run of the same length replaces the best run
isBetterOrEqual(current, best) == current >= best

\* a run replaces the best run only when it is strictly longer
isBetter(current, best) == current > best

\* the scan of the sorted active dates from dates[k] on; current is the
\* length of the run that ends at dates[k - 1] and began at currentStart
RECURSIVE scanStreak(_, _, _, _, _, _)
scanStreak(dates, k, current, currentStart, best, bestStart) ==
  IF k > Len(dates) THEN [max_streak |-> best, start |-> bestStart]
  ELSE LET continues == k > 1 /\ dates[k] = nextDay(dates[k - 1])
           run == IF continues THEN current + 1 ELSE 1
           runStart == IF continues THEN currentStart ELSE dates[k]
       IN IF isBetter(run, best)
          THEN scanStreak(dates, k + 1, run, runStart, run, runStart)
          ELSE scanStreak(dates, k + 1, run, runStart, best, bestStart)

\* an empty set of dates has the streak 0 and no start (<< >>)
longestStreak(dates) == scanStreak(dates, 1, 0, << >>, 0, << >>)

\* a year-month is <<year, month>>; a record carries its month and the
\* value of the metric
monthBefore(m1, m2) == m1[1] < m2[1] \/ (m1[1] = m2[1] /\ m1[2] < m2[2])

nextMonth(month) == IF month[2] < 12 THEN <<month[1], month[2] + 1>> ELSE <<month[1] + 1, 1>>

RECURSIVE firstMonth(_)
firstMonth(records) ==
  IF Len(records) = 1 THEN records[1].month
  ELSE LET rest == firstMonth(Tail(records))
       IN IF monthBefore(records[1].month, rest) THEN records[1].month ELSE rest

RECURSIVE lastMonth(_)
lastMonth(records) ==
  IF Len(records) = 1 THEN records[1].month
  ELSE LET rest == lastMonth(Tail(records))
       IN IF monthBefore(rest, records[1].month) THEN records[1].month ELSE rest

\* the records of one month
recordsOf(records, month) == SelectSeq(records, LAMBDA r : r.month = month)

RECURSIVE sumValues(_)
sumValues(records) ==
  IF Len(records) = 0 THEN 0 ELSE records[1].value + sumValues(Tail(records))

\* mutant: the mean of a month without records is 0 / 0
meanOfUnguarded(total, count) == RDiv(R(total), R(count))

\* the mean of a month's values; the placeholder 0 for a month without records
meanOf(total, count) == IF count = 0 THEN R(0) ELSE RDiv(R(total), R(count))

trendPoint(records, month) ==
  LET own == recordsOf(records, month)
  IN [month |-> month, average |-> meanOf(sumValues(own), Len(own)), count |-> Len(own)]

\* the trend points of month .. last
RECURSIVE trendFrom(_, _, _)
trendFrom(records, month, last) ==
  IF monthBefore(last, month) THEN << >>
  ELSE <<trendPoint(records, month)>> \o trendFrom(records, nextMonth(month), last)

monthlyTrend(records) ==
  IF Len(records) = 0 THEN << >>
  ELSE trendFrom(records, firstMonth(records), lastMonth(records))

(***************************************************************************)
(* The trend line of generateQuantileViz: one marker per trend point       *)
(***************************************************************************)
trendWidth == 350
trendHeight == 40
trendPad == 5

\* Math.min(a, b): NaN if either argument is NaN
MathMin(p, q) == IF IsNaN(p) \/ IsNaN(q) THEN NaN ELSE IF RLt(q, p) THEN q ELSE p

\* Math.max(...trendData.map(t => t.average), 1)
RECURSIVE maxAverage(_)
maxAverage(trend) ==
  IF Len(trend) = 0 THEN R(1) ELSE MathMax(trend[1].average, maxAverage(Tail(trend)))

\* Math.min(...trendData.map(t => t.average)) of a non-empty trend
RECURSIVE minAverage(_)
minAverage(trend) ==
  IF Len(trend) = 1 THEN trend[1].average
  ELSE MathMin(trend[1].average, minAverage(Tail(trend)))

\* v || 1 : 0 and NaN are falsy
OrOne(p) == IF IsNaN(p) \/ p = R(0) THEN R(1) ELSE p

\* cx of marker i (from 0) of n
markerX(i, n) ==
  IF n > 1
  THEN RAdd(R(trendPad), RMul(RDiv(R(i), R(n - 1)), R(trendWidth - 2 * trendPad)))
  ELSE RDiv(R(trendWidth), R(2))

\* cy of a marker
markerY(average, minVal, range, n) ==
  IF n > 1
  THEN RAdd(R(trendPad),
            RMul(RSub(R(1), RDiv(RSub(average, minVal), range)), R(trendHeight - 2 * trendPad)))
  ELSE RDiv(R(trendHeight), R(2))

\* the trend-marker circles, none for a missing or empty trend
trendMarkers(trend) ==
  IF Len(trend) = 0 THEN << >>
  ELSE LET minVal == minAverage(trend)
           range == OrOne(RSub(maxAverage(trend), minVal))
       IN [k \in 1..Len(trend) |->
             [ month |-> trend[k].month, value |-> trend[k].average,
               cx |-> markerX(k - 1, Len(trend)),
               cy |-> markerY(trend[k].average, minVal, range, Len(trend)) ]]

(***************************************************************************)
(* Operations: a run picks one call and its arguments, then performs it    *)
(***************************************************************************)
squarifyCall(items, c) ==
  [kind |-> "squarify", items |-> items, x |-> R(c[1]), y |-> R(c[2]),
   width |-> R(c[3]), height |-> R(c[4])]

SquarifyCalls ==
  { squarifyCall(items, c) : items \in FlatItems, c \in Canvases }
    \cup { squarifyCall(items, SmallCanvas) : items \in NestedItems }
    \cup { squarifyCall(items, c) :
              items \in { l \in NestedItems : Len(l) = 1 }, c \in BoundaryCanvases }

GenerateTreemapCalls ==
  { [kind |-> "generateTreemap", items |-> domains, x |-> R(0), y |-> R(0),
     width |-> R(canvasWidth), height |-> R(canvasHeight)] :
      domains \in ItemLists \cup {ElevenDomains, DeepDomains} }

CalculateQuantilesCalls ==
  { [kind |-> "calculateQuantiles", dist |-> [defined |-> TRUE, bins |-> d]] : d \in Distributions }
    \cup { [kind |-> "calculateQuantiles", dist |-> [defined |-> FALSE, bins |-> << >>]] }

NormalizeAndSliceCalls ==
  { [kind |-> "normalizeAndSlice", items |-> items, limit |-> limit] :
      items \in EntityLists, limit \in Limits }

GenerateSubdomainSectionsCalls ==
  { [kind |-> "generateSubdomainSections", items |-> domains] : domains \in SectionDomains }

GenerateTopEntitiesSectionCalls ==
  { [kind |-> "generateTopEntitiesSection", tops |-> tops] : tops \in AllTimeTops }

GenerateModelsSectionCalls ==
  { [kind |-> "generateModelsSection", stats |-> stats] : stats \in ModelStats }

\* the calendar days active dates are drawn from, in ascending order: the
\* turn of a year, the spec's Jan 1, 2, 3, 5 and the turns of two months
DateUniverse ==
  << <<2024, 12, 31>>, <<2025, 1, 1>>, <<2025, 1, 2>>, <<2025, 1, 3>>, <<2025, 1, 5>>,
     <<2025, 1, 31>>, <<2025, 2, 1>>, <<2025, 2, 28>>, <<2025, 3, 1>> >>

\* the sorted active dates whose positions in DateUniverse are picked
activeDates(picked) == SelectSeq(DateUniverse, LAMBDA d : \E i \in picked : DateUniverse[i] = d)

LongestStreakCalls ==
  { [kind |-> "longestStreak", dates |-> activeDates(picked)] :
      picked \in SUBSET (1..Len(DateUniverse)) }

\* records of the monthly trend: months around the turn of a year, with
\* February 2025 left out, and metric values 1 and 2
Records ==
  [month : { <<2024, 11>>, <<2024, 12>>, <<2025, 1>>, <<2025, 3>> }, value : {1, 2}]

RecordLists == SeqsUpTo(Records, MaxRecords)

MonthlyTrendCalls == { [kind |-> "monthlyTrend", records |-> records] : records \in RecordLists }

BuildDistributionCalls ==
  { [kind |-> "buildDistribution", values |-> values, binCount |-> binCount] :
      values \in SeqsUpTo(0..MaxCount, MaxItems), binCount \in 1..MaxBins }

(***************************************************************************)
(* Messages heatmap (script of the dashboard)                              *)
(***************************************************************************)
MaxDays == 6
MaxDayCount == 3

\* the days from new Date(year, 0, 1) to new Date(year, 11, 31), numbered
\* from 1, in a year that is not a leap year
daysOfYear == 365

\* where sort((a, b) => a - b) places c in an ascending sequence
RECURSIVE insertAscending(_, _)
insertAscending(sorted, c) ==
  IF Len(sorted) = 0 THEN <<c>>
  ELSE IF sorted[1] <= c
       THEN <<sorted[1]>> \o insertAscending(Tail(sorted), c)
       ELSE <<c>> \o sorted

RECURSIVE sortAscending(_)
sortAscending(s) ==
  IF Len(s) = 0 THEN << >> ELSE insertAscending(sortAscending(Tail(s)), s[1])

\* data.map(d => d.count).filter(c => c > 0).sort((a, b) => a - b)
positiveCounts(data) ==
  sortAscending(SelectSeq([i \in 1..Len(data) |-> data[i].count], LAMBDA c : c > 0))

\* count >= blackThreshold, where blackThreshold is counts[counts.length - 4]
\* (counted from 0) when counts.length > 4 and Infinity otherwise
reachesBlack(count, counts) ==
  Len(counts) > 4 /\ count >= counts[Len(counts) - 3]

\* counts[Math.floor(counts.length * 0.9)], counted from 0, or 0
clipValue(counts) ==
  IF Len(counts) > 0 THEN counts[((Len(counts) * 9) \div 10) + 1] ELSE 0

\* clipValue || 1
maxForScale(counts) == IF clipValue(counts) = 0 THEN 1 ELSE clipValue(counts)

\* Math.min(8, Math.ceil((count / maxForScale) * 8))
greenLevel(count, counts) ==
  LET m == maxForScale(counts)
      ceil == ((count * 8) + m - 1) \div m
  IN IF ceil > 8 THEN 8 ELSE ceil

levelOf(count, counts) ==
  IF count > 0
  THEN IF reachesBlack(count, counts) THEN 9 ELSE greenLevel(count, counts)
  ELSE 0

\* dataMap.get(dateStr) || 0: the count of the last entry for the date
RECURSIVE dataMapGet(_, _)
dataMapGet(data, date) ==
  IF Len(data) = 0 THEN 0
  ELSE IF data[Len(data)].date = date THEN data[Len(data)].count
       ELSE dataMapGet(SubSeq(data, 1, Len(data) - 1), date)

\* the level of the cell of every day of the year
createHeatmapWithClipping(data) ==
  [ day \in 1..daysOfYear |-> levelOf(dataMapGet(data, day), positiveCounts(data)) ]

\* daily message counts: one entry for each of the first days of the year
DayCounts == {0, 1, MaxDayCount}
mkDaily(cs) == [i \in 1..Len(cs) |-> [date |-> i, count |-> cs[i]]]

\* twenty days of counts 1 to 20
TwentyDays == mkDaily([i \in 1..20 |-> i])

DailyCounts == { mkDaily(cs) : cs \in SeqsUpTo(DayCounts, MaxDays) } \cup {TwentyDays}

CreateHeatmapWithClippingCalls ==
  { [kind |-> "createHeatmapWithClipping", data |-> data] : data \in DailyCounts }

(***************************************************************************)
(* Dev server                                                              *)
(***************************************************************************)
\* mutant: every page name is served
isDashboardPathAnyPage(pathname) ==
  pathname \in {"/", "/wrapped.html", "/index.html"}

\* url.pathname === "/" || url.pathname === "/wrapped.html"
isDashboardPath(pathname) == pathname = "/" \/ pathname = "/wrapped.html"

\* await readFile(HTML_FILE, "utf-8"): the text of the file, or a rejection
readFile(file) ==
  IF file.state = "readable"
  THEN [threw |-> FALSE, value |-> file.content]
  ELSE [threw |-> TRUE, value |-> file.state]

\* the fetch handler; read tells whether readFile was called, threw whether
\* the handler rejected instead of returning a Response
fetch(req, file) ==
  IF isDashboardPath(req.pathname)
  THEN LET html == readFile(file)
       IN IF html.threw
          THEN [ threw |-> FALSE, read |-> TRUE, status |-> 404,
                 contentType |-> "text/plain;charset=utf-8",
                 body |-> "Run 'bun run generate' first to create wrapped.html" ]
          ELSE [ threw |-> FALSE, read |-> TRUE, status |-> 200,
                 contentType |-> "text/html", body |-> html.value ]
  ELSE [ threw |-> FALSE, read |-> FALSE, status |-> 404,
         contentType |-> "text/plain;charset=utf-8", body |-> "Not found" ]

\* requests as the handler sees them after new URL(req.url)
Pathnames ==
  {"/", "/wrapped.html", "/index.html", "/wrapped.html/", "/WRAPPED.HTML", "/favicon.ico"}
Requests ==
  [ pathname : Pathnames, search : {"", "?v=1"}, method : {"GET", "HEAD", "POST"} ]

\* wrapped.html on disk: written by generate, not there, or not readable
HtmlFiles ==
  { [state |-> "readable", content |-> "<!DOCTYPE html>"],
    [state |-> "readable", content |-> "Not found"],
    [state |-> "ENOENT", content |-> ""],
    [state |-> "EACCES", content |-> "<!DOCTYPE html>"] }

FetchCalls == { [kind |-> "fetch", req |-> req, file |-> file] : req \in Requests, file \in HtmlFiles }

(***************************************************************************)
(* generate(): one run of the dashboard generator                          *)
(***************************************************************************)
\* the calls made between JSON.parse and writeFile, in the order in which
\* the statements and the template evaluate them
renderSteps ==
  << "generateHeatmapData", "generateMessagesHeatmapData", "getStyles",
     "generateOverviewSection", "generateDistributionSection",
     "generateTemporalSection", "generateModelsSection",
     "generateDomainsSection", "generateDynamicsSection",
     "generateEntitiesSection", "generateTopEntitiesSection",
     "generateQualitySection", "generateTopConversationsSection",
     "generateSerendipitySection", "generatePolitenessSection", "getScripts" >>

\* an await or a call throws: the promise of generate() rejects
rejected(run, cause) == [run EXCEPT !.pc = "rejected", !.failedAt = cause]

\* mutant: a failing step is skipped and the run goes on
renderStepSkippingFailure(run, k, fails) ==
  [ run EXCEPT !.rendered = k,
               !.failedAt = IF fails THEN renderSteps[k] ELSE @,
               !.pc = IF k = Len(renderSteps) THEN "write" ELSE "render" ]

\* step k of renderSteps returns its text, or throws
renderStep(run, k, fails) ==
  IF fails THEN rejected(run, renderSteps[k])
  ELSE [ run EXCEPT !.rendered = k,
                    !.pc = IF k = Len(renderSteps) THEN "write" ELSE "render" ]

\* await writeFile(OUTPUT_FILE, html): the whole text is on disk, or the
\* file could not be opened and is as it was, or the write stopped part way
writeFile(run, disk) ==
  LET attempted == [run EXCEPT !.writes = @ + 1]
  IN CASE disk = "ok" -> [attempted EXCEPT !.file = "complete", !.pc = "log"]
       [] disk = "refused" -> rejected(attempted, "writeFile")
       [] disk = "full" -> rejected([attempted EXCEPT !.file = "partial"], "writeFile")

\* stats.json on disk: valid, not JSON, or missing
StatsFiles ==
  { [state |-> "readable", content |-> "valid"],
    [state |-> "readable", content |-> "malformed"],
    [state |-> "ENOENT", content |-> ""] }

\* one run: the stats file, the step of renderSteps that throws on these
\* stats (0 for none), what the disk does to the write, and wrapped.html as
\* an earlier run left it
GenerateCalls ==
  { [kind |-> "generate", statsFile |-> f, failingStep |-> k, disk |-> d, fileBefore |-> b] :
      f \in StatsFiles, k \in 0..Len(renderSteps),
      d \in {"ok", "refused", "full"}, b \in {"none", "complete"} }

Calls ==
  SquarifyCalls \cup GenerateTreemapCalls \cup CalculateQuantilesCalls
    \cup NormalizeAndSliceCalls \cup GenerateSubdomainSectionsCalls
    \cup GenerateTopEntitiesSectionCalls \cup GenerateModelsSectionCalls
    \cup BuildDistributionCalls \cup LongestStreakCalls \cup MonthlyTrendCalls
    \cup CreateHeatmapWithClippingCalls \cup FetchCalls \cup GenerateCalls

Init ==
  /\ op = "init"
  /\ arg \in Calls
  /\ ret = << >>

Squarify ==
  /\ op = "init"
  /\ arg.kind = "squarify"
  /\ op' = "squarify"
  /\ ret' = squarify(arg.items, arg.x, arg.y, arg.width, arg.height, 0)
  /\ UNCHANGED arg

GenerateTreemap ==
  /\ op = "init"
  /\ arg.kind = "generateTreemap"
  /\ op' = "generateTreemap"
  /\ ret' = generateTreemap(arg.items)
  /\ UNCHANGED arg

CalculateQuantiles ==
  /\ op = "init"
  /\ arg.kind = "calculateQuantiles"
  /\ op' = "calculateQuantiles"
  /\ ret' = calculateQuantiles(arg.dist)
  /\ UNCHANGED arg

NormalizeAndSlice ==
  /\ op = "init"
  /\ arg.kind = "normalizeAndSlice"
  /\ op' = "normalizeAndSlice"
  /\ ret' = normalizeAndSlice(arg.items, arg.limit)
  /\ arg' = [arg EXCEPT !.items = itemsAfterFold(@, foldItems(@, 1, << >>).map)]

GenerateSubdomainSections ==
  /\ op = "init"
  /\ arg.kind = "generateSubdomainSections"
  /\ op' = "generateSubdomainSections"
  /\ ret' = generateSubdomainSections(arg.items).value
  /\ arg' = [arg EXCEPT !.items = generateSubdomainSections(@).after]

GenerateTopEntitiesSection ==
  /\ op = "init"
  /\ arg.kind = "generateTopEntitiesSection"
  /\ op' = "generateTopEntitiesSection"
  /\ ret' = generateTopEntitiesSection(arg.tops).value
  /\ arg' = [arg EXCEPT !.tops = generateTopEntitiesSection(@).after]

GenerateModelsSection ==
  /\ op = "init"
  /\ arg.kind = "generateModelsSection"
  /\ op' = "generateModelsSection"
  /\ ret' = generateModelsSection(arg.stats).value
  /\ arg' = [arg EXCEPT !.stats = generateModelsSection(@).after]

BuildDistribution ==
  /\ op = "init"
  /\ arg.kind = "buildDistribution"
  /\ op' = "buildDistribution"
  /\ ret' = buildDistribution(arg.values, arg.binCount)
  /\ UNCHANGED arg

LongestStreak ==
  /\ op = "init"
  /\ arg.kind = "longestStreak"
  /\ op' = "longestStreak"
  /\ ret' = longestStreak(arg.dates)
  /\ UNCHANGED arg

\* the aggregator builds the trend, generateQuantileViz draws it
MonthlyTrend ==
  /\ op = "init"
  /\ arg.kind = "monthlyTrend"
  /\ op' = "monthlyTrend"
  /\ ret' = [ trend |-> monthlyTrend(arg.records),
              markers |-> trendMarkers(monthlyTrend(arg.records)) ]
  /\ UNCHANGED arg

CreateHeatmapWithClipping ==
  /\ op = "init"
  /\ arg.kind = "createHeatmapWithClipping"
  /\ op' = "createHeatmapWithClipping"
  /\ ret' = createHeatmapWithClipping(arg.data)
  /\ UNCHANGED arg

Fetch ==
  /\ op = "init"
  /\ arg.kind = "fetch"
  /\ op' = "fetch"
  /\ ret' = fetch(arg.req, arg.file)
  /\ UNCHANGED arg

\* const statsRaw = await readFile(STATS_FILE, "utf-8")
GenerateReadFile ==
  /\ op = "init"
  /\ arg.kind = "generate"
  /\ op' = "generate"
  /\ LET run == [ pc |-> "parse", read |-> FALSE, parsed |-> FALSE, rendered |-> 0,
                  writes |-> 0, file |-> arg.fileBefore, failedAt |-> "none",
                  reported |-> FALSE, logged |-> FALSE ]
     IN ret' = IF readFile(arg.statsFile).threw
               THEN rejected(run, "readFile")
               ELSE [run EXCEPT !.read = TRUE]
  /\ UNCHANGED arg

\* const stats = JSON.parse(statsRaw)
GenerateParse ==
  /\ op = "generate"
  /\ ret.pc = "parse"
  /\ ret' = IF readFile(arg.statsFile).value = "valid"
            THEN [ret EXCEPT !.parsed = TRUE, !.pc = "render"]
            ELSE rejected(ret, "JSON.parse")
  /\ UNCHANGED <<op, arg>>

\* the next call of renderSteps
GenerateRender ==
  /\ op = "generate"
  /\ ret.pc = "render"
  /\ ret' = renderStep(ret, ret.rendered + 1, arg.failingStep = ret.rendered + 1)
  /\ UNCHANGED <<op, arg>>

\* await writeFile(OUTPUT_FILE, html)
GenerateWriteFile ==
  /\ op = "generate"
  /\ ret.pc = "write"
  /\ ret' = writeFile(ret, arg.disk)
  /\ UNCHANGED <<op, arg>>

\* console.log of the path of the file written
GenerateLog ==
  /\ op = "generate"
  /\ ret.pc = "log"
  /\ ret' = [ret EXCEPT !.logged = TRUE, !.pc = "done"]
  /\ UNCHANGED <<op, arg>>

\* generate().catch(console.error)
GenerateCatch ==
  /\ op = "generate"
  /\ ret.pc = "rejected"
  /\ ret' = [ret EXCEPT !.reported = TRUE, !.pc = "done"]
  /\ UNCHANGED <<op, arg>>

Next ==
  \/ Squarify
  \/ GenerateTreemap
  \/ CalculateQuantiles
  \/ NormalizeAndSlice
  \/ GenerateSubdomainSections
  \/ GenerateTopEntitiesSection
  \/ GenerateModelsSection
  \/ BuildDistribution
  \/ LongestStreak
  \/ MonthlyTrend
  \/ CreateHeatmapWithClipping
  \/ Fetch
  \/ GenerateReadFile
  \/ GenerateParse
  \/ GenerateRender
  \/ GenerateWriteFile
  \/ GenerateLog
  \/ GenerateCatch

Spec == Init /\ [][Next]_vars

(***************************************************************************)
(* Treemap properties                                                      *)
(***************************************************************************)
IsLayoutCall == op \in {"squarify", "generateTreemap"}

\* the nodes the finished call laid out
laidOut ==
  IF op = "generateTreemap"
  THEN SubSeq(arg.items, 1, IF Len(arg.items) < topDomainsLimit THEN Len(arg.items) ELSE topDomainsLimit)
  ELSE arg.items

AllCountsPositive(items) == \A i \in 1..Len(items) : items[i].count > 0

\* the share of the W x H rectangle a rectangle covers: (width * height) / (W * H)
areaShare(rect, W, H) == RMul(RDiv(rect.width, W), RDiv(rect.height, H))

RECURSIVE sumAreaShares(_, _, _)
sumAreaShares(rects, W, H) ==
  IF Len(rects) = 0 THEN R(0)
  ELSE RAdd(areaShare(rects[1], W, H), sumAreaShares(Tail(rects), W, H))

\* rectangle r lies inside the rectangle (x, y, w, h)
liesInside(r, x, y, w, h) ==
  /\ RGe(r.x, x) /\ RGe(r.y, y)
  /\ RGe(r.width, R(0)) /\ RGe(r.height, R(0))
  /\ RLe(RAdd(r.x, r.width), RAdd(x, w))
  /\ RLe(RAdd(r.y, r.height), RAdd(y, h))

\* r1 and r2 share a region of positive area
overlap(r1, r2) ==
  /\ RLt(r1.x, RAdd(r2.x, r2.width)) /\ RLt(r2.x, RAdd(r1.x, r1.width))
  /\ RLt(r1.y, RAdd(r2.y, r2.height)) /\ RLt(r2.y, RAdd(r1.y, r1.height))

\* C1: with positive counts every node's rectangle has area
\* (node.count / sum of sibling counts) * W * H.
C1_AreaProportional ==
  (IsLayoutCall /\ AllCountsPositive(laidOut)) =>
    \A i \in 1..Len(ret) :
      areaShare(ret[i], arg.width, arg.height)
        = RDiv(R(laidOut[i].count), R(SumCounts(laidOut)))

\* C2: with positive counts the rectangles of one call tile the given
\* rectangle exactly: their areas add up to W * H.
C2_ExactTiling ==
  (IsLayoutCall /\ Len(laidOut) > 0 /\ AllCountsPositive(laidOut)) =>
    sumAreaShares(ret, arg.width, arg.height) = R(1)

\* C3: with non-negative counts and a positive total, no two sibling
\* rectangles overlap in a region of positive area and every sibling lies
\* inside the rectangle passed to the call.
C3_NoOverlapInside ==
  (IsLayoutCall /\ SumCounts(laidOut) > 0) =>
    /\ Len(ret) = Len(laidOut)
    /\ \A i \in 1..Len(ret) : liesInside(ret[i], arg.x, arg.y, arg.width, arg.height)
    /\ \A i, j \in 1..Len(ret) : i # j => ~overlap(ret[i], ret[j])
    \* the nested calls on the subdomains, in the parent's inner rectangle
    /\ \A i \in 1..Len(ret) :
         (SumCounts(laidOut[i].subdomains) > 0 /\ Len(ret[i].children) > 0) =>
           LET inner == innerRect(ret[i].x, ret[i].y, ret[i].width, ret[i].height)
               kids == ret[i].children
           IN /\ \A k \in 1..Len(kids) : liesInside(kids[k], inner.x, inner.y, inner.w, inner.h)
              /\ \A k, l \in 1..Len(kids) : k # l => ~overlap(kids[k], kids[l])

\* C3 witness: a call with a zero-count sibling that produced three
\* rectangles, two of them of positive area.
C3_Witness ==
  /\ op = "squarify"
  /\ Len(ret) = 3
  /\ \E i \in 1..3 : laidOut[i].count = 0
  /\ \E i, j \in 1..3 : i # j /\ RGt(areaShare(ret[i], arg.width, arg.height), R(0))
                              /\ RGt(areaShare(ret[j], arg.width, arg.height), R(0))

\* C4: every child rectangle lies inside its parent's rectangle shrunk by
\* the padding of 4 on every side, for any subdomain counts.
C4_ChildrenInsideInset ==
  IsLayoutCall =>
    \A i \in 1..Len(ret) :
      \A k \in 1..Len(ret[i].children) :
        liesInside(ret[i].children[k],
                   RAdd(ret[i].x, R(4)), RAdd(ret[i].y, R(4)),
                   RSub(ret[i].width, R(8)), RSub(ret[i].height, R(8)))

\* the same containment where the subdomain counts have a positive total
ChildrenInsideInsetPositiveTotal ==
  IsLayoutCall =>
    \A i \in 1..Len(ret) :
      SumCounts(laidOut[i].subdomains) > 0 =>
        \A k \in 1..Len(ret[i].children) :
          liesInside(ret[i].children[k],
                     RAdd(ret[i].x, R(4)), RAdd(ret[i].y, R(4)),
                     RSub(ret[i].width, R(8)), RSub(ret[i].height, R(8)))

\* a parent with two child rectangles, and one whose children are omitted
SomeChildren == IsLayoutCall /\ \E i \in 1..Len(ret) : Len(ret[i].children) = 2
ChildrenOmitted ==
  IsLayoutCall /\ \E i \in 1..Len(ret) : ret[i].hasChildren /\ Len(ret[i].children) = 0

\* the worked example [50,30,20] on 200x100 as the code lays it out:
\* 100x100, 100x30 and 20x70
ExampleLayout ==
  /\ op = "squarify" /\ Len(arg.items) = 3
  /\ [i \in 1..3 |-> arg.items[i].count] = ExampleCounts
  /\ arg.width = R(200) /\ arg.height = R(100)
  /\ [i \in 1..3 |-> <<ret[i].width, ret[i].height>>]
       = << <<R(100), R(100)>>, <<R(100), R(30)>>, <<R(20), R(70)>> >>

(***************************************************************************)
(* Quantile estimator properties                                           *)
(***************************************************************************)
bins == arg.dist.bins

\* a finished call on a histogram with positive total count
QuantilesOfPositiveTotal ==
  op = "calculateQuantiles" /\ arg.dist.defined /\ totalCount(bins) > 0

Percentiles == {pct(5), pct(25), pct(75), pct(95), pct(99)}

\* the running count after the first i bins
runningCount(dist, i) == totalCount(SubSeq(dist, 1, i))

\* bin i is the first at which the running count reaches p * total
isFirstReaching(dist, p, i) ==
  LET target == RMul(p, R(totalCount(dist)))
  IN /\ RGe(R(runningCount(dist, i)), target)
     /\ \A j \in 1..(i - 1) : RLt(R(runningCount(dist, j)), target)

\* bin_start + ((p * total - count before the bin) / bin.count) * (bin_end - bin_start)
interpolatedAt(dist, p, i) ==
  LET target == RMul(p, R(totalCount(dist)))
      before == R(runningCount(dist, i - 1))
  IN RAdd(dist[i].bin_start,
          RMul(RDiv(RSub(target, before), R(dist[i].count)),
               RSub(dist[i].bin_end, dist[i].bin_start)))

\* C5: on a valid histogram with positive total the quantiles are ordered,
\* q5 <= q25 <= q75 <= q95 <= q99, before and after rounding to one decimal.
C5_QuantilesMonotone ==
  QuantilesOfPositiveTotal =>
    /\ RLe(findQuantile(bins, pct(5)), findQuantile(bins, pct(25)))
    /\ RLe(findQuantile(bins, pct(25)), findQuantile(bins, pct(75)))
    /\ RLe(findQuantile(bins, pct(75)), findQuantile(bins, pct(95)))
    /\ RLe(findQuantile(bins, pct(95)), findQuantile(bins, pct(99)))
    /\ RLe(ret.q5, ret.q25) /\ RLe(ret.q25, ret.q75)
    /\ RLe(ret.q75, ret.q95) /\ RLe(ret.q95, ret.q99)

\* C5 witness: three bins and quantiles that strictly increase
C5_Witness ==
  /\ QuantilesOfPositiveTotal
  /\ Len(bins) = 3
  /\ RLt(ret.q5, ret.q25) /\ RLt(ret.q25, ret.q75) /\ RLt(ret.q75, ret.q95)

\* C6 as claimed: the returned avg lies between the returned q25 and q75.
C6_AvgBetweenQuartiles ==
  QuantilesOfPositiveTotal => (RLe(ret.q25, ret.avg) /\ RLe(ret.avg, ret.q75))

nonEmptyBins(dist) == { i \in 1..Len(dist) : dist[i].count > 0 }
firstNonEmpty(dist) == CHOOSE i \in nonEmptyBins(dist) : \A j \in nonEmptyBins(dist) : i <= j
lastNonEmpty(dist) == CHOOSE i \in nonEmptyBins(dist) : \A j \in nonEmptyBins(dist) : i >= j

\* C6 amended: the returned avg lies between the lower edge of the first
\* non-empty bin and the upper edge of the last non-empty bin.
C6_AvgWithinRange ==
  QuantilesOfPositiveTotal =>
    /\ RLe(bins[firstNonEmpty(bins)].bin_start, ret.avg)
    /\ RLe(ret.avg, bins[lastNonEmpty(bins)].bin_end)

\* C6 witness: a histogram whose avg is above its q75
C6_Witness == QuantilesOfPositiveTotal /\ RGt(ret.avg, ret.q75)

\* C7: whenever the total count is zero (bin list empty, absent, or every
\* count 0) all six outputs are 0.
C7_ZeroTotalAllZero ==
  (op = "calculateQuantiles" /\ totalCount(bins) = 0) =>
    ret = [avg |-> R(0), q5 |-> R(0), q25 |-> R(0), q75 |-> R(0), q95 |-> R(0), q99 |-> R(0)]

\* C8: for each of the five percentiles findQuantile returns the value
\* interpolated in the first bin at which the running count reaches or
\* exceeds p * total; the returned field is that value fixed to one decimal.
C8_InterpolationInFirstReachingBin ==
  QuantilesOfPositiveTotal =>
    \A p \in Percentiles :
      \E i \in 1..Len(bins) :
        /\ isFirstReaching(bins, p, i)
        /\ findQuantile(bins, p) = interpolatedAt(bins, p, i)
        /\ p = pct(5) => ret.q5 = toFixed1(interpolatedAt(bins, p, i))
        /\ p = pct(25) => ret.q25 = toFixed1(interpolatedAt(bins, p, i))
        /\ p = pct(75) => ret.q75 = toFixed1(interpolatedAt(bins, p, i))
        /\ p = pct(95) => ret.q95 = toFixed1(interpolatedAt(bins, p, i))
        /\ p = pct(99) => ret.q99 = toFixed1(interpolatedAt(bins, p, i))

\* C8 witness: the 75th percentile falls in the third bin, after an empty
\* second bin, strictly inside it
C8_Witness ==
  /\ QuantilesOfPositiveTotal
  /\ Len(bins) = 3
  /\ bins[1].count > 0 /\ bins[2].count = 0
  /\ isFirstReaching(bins, pct(75), 3)
  /\ RLt(bins[3].bin_start, findQuantile(bins, pct(75)))
  /\ RLt(findQuantile(bins, pct(75)), bins[3].bin_end)

\* sum over the first n bins of (bin_start + bin_end) * count, i.e. twice
\* the count-weighted sum of midpoints
RECURSIVE edgeSum(_, _)
edgeSum(dist, n) ==
  IF n = 0 THEN R(0)
  ELSE RAdd(edgeSum(dist, n - 1),
            RMul(RAdd(dist[n].bin_start, dist[n].bin_end), R(dist[n].count)))

midpointMean(dist) == RDiv(edgeSum(dist, Len(dist)), R(2 * totalCount(dist)))

\* C9: avg is the count-weighted sum of bin midpoints divided by the total
\* count (returned fixed to one decimal); with exactly one non-empty bin it
\* is that bin's midpoint.
C9_AvgIsMidpointMean ==
  QuantilesOfPositiveTotal =>
    /\ weightedAverage(bins) = midpointMean(bins)
    /\ ret.avg = toFixed1(midpointMean(bins))
    /\ Cardinality(nonEmptyBins(bins)) = 1 =>
         LET b == bins[firstNonEmpty(bins)]
         IN /\ RAdd(weightedAverage(bins), weightedAverage(bins)) = RAdd(b.bin_start, b.bin_end)
            /\ RAdd(ret.avg, ret.avg) = RAdd(b.bin_start, b.bin_end)

\* C9 witness: three non-empty bins of unequal counts
C9_Witness ==
  /\ QuantilesOfPositiveTotal
  /\ Cardinality(nonEmptyBins(bins)) = 3
  /\ bins[1].count # bins[2].count

\* C9 second case: a single non-empty bin between two empty ones
SingleNonEmptyBin ==
  QuantilesOfPositiveTotal /\ Len(bins) = 3 /\ nonEmptyBins(bins) = {2}

(***************************************************************************)
(* Entity canonicaliser properties                                         *)
(***************************************************************************)
\* names equal ignoring letter case
sameIgnoringCase(n1, n2) == toLowerCase(n1) = toLowerCase(n2)

\* sum of the counts of the entries of list whose name equals name ignoring case
RECURSIVE classCount(_, _)
classCount(list, name) ==
  IF Len(list) = 0 THEN 0
  ELSE (IF sameIgnoringCase(list[1].name, name) THEN list[1].count ELSE 0)
         + classCount(Tail(list), name)

classesOf(list) == { toLowerCase(list[k].name) : k \in 1..Len(list) }

\* a finished call that returned and whose limit truncated nothing
ReturnedUntruncated ==
  /\ op = "normalizeAndSlice"
  /\ ~ret.threw
  /\ arg.limit >= Cardinality(classesOf(arg.items))

\* C10: before truncation every output entry's count is the sum of the
\* counts of the input entries with the same name ignoring case, and the
\* output counts add up to the input counts.
C10_CountsMerged ==
  ReturnedUntruncated =>
    /\ \A k \in 1..Len(ret.value) :
         ret.value[k].count = classCount(arg.items, ret.value[k].name)
    /\ SumCounts(ret.value) = SumCounts(arg.items)
    /\ arg.items = ExampleEntities =>
         ret.value = << [name |-> <<"O", "p", "e", "n", "A", "I">>, count |-> 5] >>

\* C10 witness: three input entries, two of them case variants of one
\* name, merged into two output entries
C10_Witness ==
  /\ ReturnedUntruncated
  /\ Len(arg.items) = 3
  /\ Len(ret.value) = 2

\* the lists that hold the entries of list in another order
Reorderings(list) ==
  { [i \in 1..Len(list) |-> list[p[i]]] :
      p \in { q \in [1..Len(list) -> 1..Len(list)] :
                \A i, j \in 1..Len(list) : q[i] = q[j] => i = j } }

\* the names of the entries a call returns
namesOf(list) == { list[k].name : k \in 1..Len(list) }

\* the input entries of the class of name whose name starts in upper case
capitalisedVariants(list, name) ==
  { k \in 1..Len(list) :
      /\ sameIgnoringCase(list[k].name, name)
      /\ Len(list[k].name) > 0
      /\ keepsOwnName(list[k].name) }

\* C11: the display name of a merged class does not depend on the order of
\* the input: every reordering of the input entries gives each class the
\* same name, and that name starts in upper case whenever the class has
\* such a variant.
C11_NameOrderIndependent ==
  ReturnedUntruncated =>
    /\ \A p \in Reorderings(arg.items) :
         namesOf(normalizeAndSlice(p, arg.limit).value) = namesOf(ret.value)
    /\ \A k \in 1..Len(ret.value) :
         capitalisedVariants(arg.items, ret.value[k].name) # {} =>
           keepsOwnName(ret.value[k].name)

\* the part of C11 the code keeps: the name of a class that has a
\* capitalised variant starts in upper case
CapitalisedVariantPreferred ==
  ReturnedUntruncated =>
    \A k \in 1..Len(ret.value) :
      capitalisedVariants(arg.items, ret.value[k].name) # {} =>
        keepsOwnName(ret.value[k].name)

\* two capitalised variants of one word, the later one named
TwoCapitalisedVariants ==
  /\ op = "normalizeAndSlice"
  /\ arg.items = << [name |-> <<"A", "b">>, count |-> 1],
                    [name |-> <<"A", "B">>, count |-> 1] >>
  /\ ret.value = << [name |-> <<"A", "B">>, count |-> 2] >>

\* a finished call that returned
Returned == op = "normalizeAndSlice" /\ ~ret.threw

\* C12: normalizeAndSlice is idempotent: applied with the same limit to
\* its own output it returns that output, same names, counts and order.
C12_Idempotent ==
  Returned => normalizeAndSlice(ret.value, arg.limit) = ret

\* C12 witness: a call whose limit cut the list and whose output holds two
\* entries of equal count
C12_Witness ==
  /\ Returned
  /\ Len(ret.value) < Cardinality(classesOf(arg.items))
  /\ Len(ret.value) = 2
  /\ ret.value[1].count = ret.value[2].count

\* index of the first entry of list whose name equals name ignoring case
firstIndex(list, name) ==
  CHOOSE i \in 1..Len(list) :
    /\ sameIgnoringCase(list[i].name, name)
    /\ \A j \in 1..(i - 1) : ~sameIgnoringCase(list[j].name, name)

\* the class of name1 ranks before the class of name2: larger merged count,
\* or equal merged count and earlier first appearance
ranksBefore(list, name1, name2) ==
  \/ classCount(list, name1) > classCount(list, name2)
  \/ /\ classCount(list, name1) = classCount(list, name2)
     /\ firstIndex(list, name1) < firstIndex(list, name2)

Min(a, b) == IF a < b THEN a ELSE b

\* C13: the output is sorted by non-increasing merged count, entries of
\* equal merged count keep the order in which their classes first appeared
\* in the input, and the output is the first K entries of that order; K=2
\* over [{a,10},{b,10},{c,5}] gives [a, b].
C13_TopKStableOrder ==
  Returned =>
    /\ Len(ret.value) = Min(arg.limit, Cardinality(classesOf(arg.items)))
    /\ \A k \in 1..Len(ret.value) :
         ret.value[k].count = classCount(arg.items, ret.value[k].name)
    /\ \A k \in 1..(Len(ret.value) - 1) :
         ranksBefore(arg.items, ret.value[k].name, ret.value[k + 1].name)
    /\ \A i \in 1..Len(arg.items) :
         (\A k \in 1..Len(ret.value) : ~sameIgnoringCase(ret.value[k].name, arg.items[i].name))
           => \A k \in 1..Len(ret.value) :
                ranksBefore(arg.items, ret.value[k].name, arg.items[i].name)
    /\ (arg.items = TopKExample /\ arg.limit = 2) =>
         ret.value = << [name |-> <<"a">>, count |-> 10], [name |-> <<"b">>, count |-> 10] >>

\* C13 witness: the spec's example, K=2 over [{a,10},{b,10},{c,5}]
C13_Witness ==
  /\ Returned
  /\ arg.items = TopKExample
  /\ arg.limit = 2
  /\ Len(ret.value) = 2

\* the rectangle leaves its subdomains an inner width (width - 8) of at
\* least 60 and an inner height (height - 8) of at least 40
hasRoomForChildren(rect) ==
  /\ RGe(RSub(rect.width, R(8)), R(60))
  /\ RGe(RSub(rect.height, R(8)), R(40))

OneUnitShort ==
  /\ op = "squarify"
  /\ Len(ret) = 1
  /\ ret[1].width = R(67) /\ ret[1].height = R(48)
  /\ Len(laidOut[1].subdomains) > 0
  /\ ret[1].children = << >>

\* the names of list in order
nameSeq(list) == [k \in 1..Len(list) |-> list[k].name]

\* short is the first Len(short) entries of long
isPrefix(short, long) ==
  Len(short) <= Len(long) /\ short = SubSeq(long, 1, Len(short))

colorAt(i, colorOffset) == COLORS[((colorOffset + i - 1) % 10) + 1]

\* rects holds one rectangle per node, in order, with the node's name and
\* count and the colour of its position
oneRectPerNode(rects, nodes, colorOffset) ==
  /\ Len(rects) = Len(nodes)
  /\ \A i \in 1..Len(rects) :
       /\ rects[i].name = nodes[i].name
       /\ rects[i].count = nodes[i].count
       /\ rects[i].color = colorAt(i, colorOffset)

\* C17: squarify returns exactly one rectangle per input node, in input
\* order; rectangle i carries the name and count of node i, and its colour
\* depends only on i and the colour offset (for the subdomains of node i
\* the offset is i - 1 + 10).
C17_OneRectPerNode ==
  IsLayoutCall =>
    /\ oneRectPerNode(ret, laidOut, 0)
    /\ \A i \in 1..Len(ret) :
         Len(ret[i].children) > 0 =>
           oneRectPerNode(ret[i].children, laidOut[i].subdomains, i - 1 + 10)

\* C17 witness: two domains, the second with two subdomains laid out; the
\* second domain and its first subdomain both take the second colour
C17_Witness ==
  /\ op = "squarify"
  /\ Len(ret) = 2
  /\ Len(ret[2].children) = 2
  /\ ret[2].color = COLORS[2]
  /\ ret[2].children[1].color = COLORS[2]
  /\ ret[2].children[2].color = COLORS[3]

(***************************************************************************)
(* Frame properties                                                        *)
(***************************************************************************)
Renderers ==
  { "normalizeAndSlice", "squarify", "generateTreemap", "generateSubdomainSections",
    "generateTopEntitiesSection", "generateModelsSection" }

\* C14: the renderers treat the statistics as read-only: a call of
\* normalizeAndSlice, squarify (with layoutSubdomains), generateTreemap,
\* generateSubdomainSections, generateTopEntitiesSection or
\* generateModelsSection leaves every input list with the length, order,
\* names and counts it had before the call.
C14_InputsUnchanged == [][op' \in Renderers => arg' = arg]_vars

\* C14 witness: generateSubdomainSections has shown a domain of six
\* subdomains as four bars and "other", the sum of the last two
C14_Witness ==
  /\ op = "generateSubdomainSections"
  /\ Len(arg.items) = 1
  /\ Len(arg.items[1].subdomains) = 6
  /\ Len(ret) = 1
  /\ Len(ret[1].bars) = 5
  /\ ret[1].bars[5].name = otherName
  /\ ret[1].bars[5].count = 3

\* generateTopEntitiesSection has rendered a list given in ascending order
\* of count in descending order
TagsSorted ==
  /\ op = "generateTopEntitiesSection"
  /\ Len(ret[1]) = 2
  /\ arg.tops[1].items[1].count < arg.tops[1].items[2].count
  /\ ret[1][1].count > ret[1][2].count

\* generateModelsSection has dropped a model below 10 and shown the other
\* two, given in ascending order, in descending order
ModelsFilteredAndSorted ==
  /\ op = "generateModelsSection"
  /\ [i \in 1..Len(arg.stats.models) |-> arg.stats.models[i].count] = <<9, 10, 12>>
  /\ Len(ret.bars) = 1
  /\ [i \in 1..Len(ret.bars[1].bars) |-> ret.bars[1].bars[i].count] = <<12, 10>>

(***************************************************************************)
(* Aggregator properties                                                   *)
(***************************************************************************)
\* C18: the distribution builder's bins are contiguous, non-overlapping and
\* ascending, their width is max(1, ceil((max - min) / bin_count)), and the
\* bin counts add up to the number of input values (the empty input gives
\* one bin of width 0 and count 0).
C18_BinsPartitionInput ==
  op = "buildDistribution" =>
    /\ \A b \in 1..(Len(ret) - 1) : ret[b].bin_end = ret[b + 1].bin_start
    /\ SumCounts(ret) = Len(arg.values)
    /\ Len(arg.values) > 0 =>
         /\ Len(ret) = arg.binCount
         /\ ret[1].bin_start = minOf(arg.values)
         /\ \A b \in 1..Len(ret) :
              LET width == ret[b].bin_end - ret[b].bin_start
                  range == maxOf(arg.values) - minOf(arg.values)
              IN /\ width >= 1
                 /\ width * arg.binCount >= range
                 /\ width = 1 \/ (width - 1) * arg.binCount < range

\* C18 witness: values 0 and 3 in three bins of width 1; the value 3 falls
\* past the last bin and is counted in it
C18_Witness ==
  /\ op = "buildDistribution"
  /\ arg.values = <<0, 3>>
  /\ arg.binCount = 3
  /\ [b \in 1..Len(ret) |-> <<ret[b].bin_start, ret[b].bin_end, ret[b].count>>]
       = << <<0, 1, 1>>, <<1, 2, 0>>, <<2, 3, 1>> >>

\* days from 2024-01-01 to the first day of month m of year y
RECURSIVE daysBeforeMonth(_, _)
daysBeforeMonth(y, m) ==
  IF m = 1 THEN (IF y = 2024 THEN 0 ELSE 366 + 365 * (y - 2025))
  ELSE daysBeforeMonth(y, m - 1) + daysInMonth(y, m - 1)

\* the number of a calendar day, counted from 2024-01-01
dayNumber(date) == daysBeforeMonth(date[1], date[2]) + date[3]

dayNumbersOf(dates) == { dayNumber(dates[k]) : k \in 1..Len(dates) }

\* the len days from day number n on are all active
isRun(dates, n, len) == \A j \in 0..(len - 1) : n + j \in dayNumbersOf(dates)

\* C19: the reported streak is the length of the longest run of consecutive
\* calendar days that are all active, the run reported is the earliest of
\* the runs of that length, and {Jan 1, Jan 2, Jan 3, Jan 5} gives 3.
C19_LongestStreakEarliest ==
  op = "longestStreak" =>
    /\ Len(arg.dates) = 0 => ret.max_streak = 0
    /\ Len(arg.dates) > 0 =>
         /\ isRun(arg.dates, dayNumber(ret.start), ret.max_streak)
         /\ \A n \in dayNumbersOf(arg.dates) :
              /\ ~isRun(arg.dates, n, ret.max_streak + 1)
              /\ isRun(arg.dates, n, ret.max_streak) => n >= dayNumber(ret.start)
    /\ arg.dates = << <<2025, 1, 1>>, <<2025, 1, 2>>, <<2025, 1, 3>>, <<2025, 1, 5>> >>
         => ret.max_streak = 3

\* C19 witness: Dec 31 and Jan 1, then Jan 31 and Feb 1: two runs of two
\* days, the earlier one reported
C19_Witness ==
  /\ op = "longestStreak"
  /\ arg.dates = << <<2024, 12, 31>>, <<2025, 1, 1>>, <<2025, 1, 31>>, <<2025, 2, 1>> >>
  /\ ret.max_streak = 2
  /\ ret.start = <<2024, 12, 31>>

\* the spec's example: Jan 1, 2, 3 and 5 give a streak of 3
StreakExample ==
  /\ op = "longestStreak"
  /\ arg.dates = << <<2025, 1, 1>>, <<2025, 1, 2>>, <<2025, 1, 3>>, <<2025, 1, 5>> >>
  /\ ret.max_streak = 3

\* the number of a calendar month
monthIndex(month) == month[1] * 12 + month[2] - 1

monthIndexesOf(records) == { monthIndex(records[k].month) : k \in 1..Len(records) }

leastOf(S) == CHOOSE n \in S : \A m \in S : n <= m
greatestOf(S) == CHOOSE n \in S : \A m \in S : n >= m

\* C20: the trend has exactly one point for every calendar month from the
\* first to the last observed record, in chronological order; a month
\* without a record has value 0; each point is drawn as one marker, in the
\* same order; records in January and March only give three points with
\* February = 0.
C20_TrendContinuous ==
  (op = "monthlyTrend" /\ Len(arg.records) > 0) =>
    LET observed == monthIndexesOf(arg.records)
    IN /\ Len(ret.trend) = greatestOf(observed) - leastOf(observed) + 1
       /\ \A k \in 1..Len(ret.trend) :
            /\ monthIndex(ret.trend[k].month) = leastOf(observed) + k - 1
            /\ ret.trend[k].month[2] \in 1..12
            /\ monthIndex(ret.trend[k].month) \notin observed
                 => ret.trend[k].average = R(0)
            /\ monthIndex(ret.trend[k].month) \in observed
                 => RGe(ret.trend[k].average, R(1))
       /\ Len(ret.markers) = Len(ret.trend)
       /\ \A k \in 1..Len(ret.markers) :
            /\ ret.markers[k].month = ret.trend[k].month
            /\ ret.markers[k].value = ret.trend[k].average
            /\ k > 1 => RLt(ret.markers[k - 1].cx, ret.markers[k].cx)
       /\ observed = {monthIndex(<<2025, 1>>), monthIndex(<<2025, 3>>)} =>
            /\ Len(ret.trend) = 3
            /\ ret.trend[2].month = <<2025, 2>>
            /\ ret.trend[2].average = R(0)

\* C20 witness: a record in January and one in March 2025 give the points
\* January, February and March, February with value 0
C20_Witness ==
  /\ op = "monthlyTrend"
  /\ arg.records = << [month |-> <<2025, 1>>, value |-> 2], [month |-> <<2025, 3>>, value |-> 1] >>
  /\ [k \in 1..Len(ret.trend) |-> <<ret.trend[k].month, ret.trend[k].average>>]
       = << << <<2025, 1>>, R(2) >>, << <<2025, 2>>, R(0) >>, << <<2025, 3>>, R(1) >> >>
  /\ Len(ret.markers) = 3

\* a trend across the turn of the year: November 2024 to January 2025
TrendAcrossYears ==
  /\ op = "monthlyTrend"
  /\ Len(arg.records) = 2
  /\ Len(ret.trend) = 3
  /\ ret.trend[1].month = <<2024, 11>>
  /\ ret.trend[2].average = R(0)
  /\ ret.trend[3].month = <<2025, 1>>

(***************************************************************************)
(* Slice properties of squarify                                            *)
(***************************************************************************)
\* sum of the counts of items[i ..]
RECURSIVE countFrom(_, _)
countFrom(items, i) ==
  IF i > Len(items) THEN 0 ELSE items[i].count + countFrom(items, i + 1)

\* the rectangle still free when rects[i] is cut: what the call was given
\* less everything to the left of and above rects[i]
remainingAt(rects, i) ==
  [ w |-> RSub(RAdd(arg.x, arg.width), rects[i].x),
    h |-> RSub(RAdd(arg.y, arg.height), rects[i].y) ]

\* the dimension of rects[i] that was cut, and the dimension it was cut from
cutSide(rects, i) ==
  IF RGt(remainingAt(rects, i).w, remainingAt(rects, i).h)
  THEN [slice |-> rects[i].width, of |-> remainingAt(rects, i).w]
  ELSE [slice |-> rects[i].height, of |-> remainingAt(rects, i).h]

\* C21: the slice of each node is the remaining dimension times node.count
\* divided by the sum of the counts of this node and the nodes not yet
\* placed.
C21_SliceOfRemainingCounts ==
  (op = "squarify" /\ AllCountsPositive(arg.items)) =>
    \A i \in 1..Len(ret) :
      cutSide(ret, i).slice
        = RMul(cutSide(ret, i).of,
               RDiv(R(arg.items[i].count), R(countFrom(arg.items, i))))

\* what the code does instead: the remaining dimension times node.count
\* divided by the sum of the counts of all the nodes of the call
SliceOfAllCounts ==
  (op = "squarify" /\ AllCountsPositive(arg.items)) =>
    \A i \in 1..Len(ret) :
      cutSide(ret, i).slice
        = RMul(cutSide(ret, i).of,
               RDiv(R(arg.items[i].count), R(countFrom(arg.items, 1))))

\* rects[i ..] are cut from the rectangle cur one after the other: each sits
\* at the cursor, is cut across the width when the remaining width is the
\* larger and across the height otherwise, keeps the other dimension whole,
\* and leaves the rest shortened and moved by exactly its own slice
RECURSIVE followsSplits(_, _, _)
followsSplits(rects, i, cur) ==
  \/ i > Len(rects)
  \/ /\ rects[i].x = cur.x
     /\ rects[i].y = cur.y
     /\ IF RGt(cur.w, cur.h)
        THEN /\ rects[i].height = cur.h
             /\ followsSplits(rects, i + 1,
                  [ x |-> RAdd(cur.x, rects[i].width), y |-> cur.y,
                    w |-> RSub(cur.w, rects[i].width), h |-> cur.h ])
        ELSE /\ rects[i].width = cur.w
             /\ followsSplits(rects, i + 1,
                  [ x |-> cur.x, y |-> RAdd(cur.y, rects[i].height),
                    w |-> cur.w, h |-> RSub(cur.h, rects[i].height) ])

C23_SearchStopsAtNonEmptyBin ==
  QuantilesOfPositiveTotal =>
    \A p \in Percentiles :
      LET k == stopBin(bins, p)
      IN /\ k \in 1..Len(bins)
         /\ bins[k].count > 0
         /\ findQuantile(bins, p) = interpolatedAt(bins, p, k)
         /\ ~IsNaN(findQuantile(bins, p))

\* a histogram whose first and last bins are empty: the search passes the
\* first and never gets to the last
C23_Witness ==
  /\ QuantilesOfPositiveTotal
  /\ Len(bins) = 3
  /\ bins[1].count = 0 /\ bins[2].count > 0 /\ bins[3].count = 0
  /\ \A p \in Percentiles : stopBin(bins, p) = 2

\* C24: the treemap never has more than two levels: the rectangles laid out
\* for subdomains carry no children of their own.
C24_TwoLevelsOnly ==
  IsLayoutCall =>
    \A i \in 1..Len(ret) :
      \A j \in 1..Len(ret[i].children) :
        /\ ~ret[i].children[j].hasChildren
        /\ ret[i].children[j].children = << >>

\* a domain laid out with its subdomains, where a subdomain record itself
\* carries subdomains and has a rectangle with room for them
C24_Witness ==
  /\ op = "generateTreemap"
  /\ Len(ret) = 1 /\ Len(ret[1].children) = 2
  /\ "subdomains" \in DOMAIN arg.items[1].subdomains[1]
  /\ Len(arg.items[1].subdomains[1].subdomains) = 2
  /\ ~tooSmall(innerRect(ret[1].children[1].x, ret[1].children[1].y,
                         ret[1].children[1].width, ret[1].children[1].height))

(***************************************************************************)
(* Subdomain sections                                                      *)
(***************************************************************************)
\* the domains that have a subdomain, and the place of such a domain among them
withSubs == { d \in 1..Len(arg.items) : Len(arg.items[d].subdomains) > 0 }
placeOf(d) == Cardinality({ e \in withSubs : e <= d })

barCounts(section) == [j \in 1..Len(section.bars) |-> section.bars[j].count]
subCounts(subs) == [j \in 1..Len(subs) |-> subs[j].count]

\* bar j shows subdomain j: its count, and its name with spaces for underscores
showsSub(bar, sub) ==
  bar.count = sub.count /\ bar.name = replaceUnderscores(sub.name)

\* the bars of a section are the subdomains when there are at most four,
\* else the first four and "other" with the sum of the rest
barsOf(section, subs) ==
  IF Len(subs) <= 4
  THEN /\ Len(section.bars) = Len(subs)
       /\ \A j \in 1..Len(subs) : showsSub(section.bars[j], subs[j])
  ELSE /\ Len(section.bars) = 5
       /\ \A j \in 1..4 : showsSub(section.bars[j], subs[j])
       /\ section.bars[5].name = otherName
       /\ section.bars[5].count = SumSeq(SubSeq(subCounts(subs), 5, Len(subs)))

\* C25: generateSubdomainSections shows a section for each of the first nine
\* domains that have a subdomain, in input order; its bars are the
\* subdomains when there are at most four, else the first four and "other"
\* with the sum of the rest, so the counts shown add up to the total of the
\* domain's subdomain counts.
C25_SectionsShowAllCounts ==
  op = "generateSubdomainSections" =>
    /\ Len(ret) = Min(9, Cardinality(withSubs))
    /\ \A d \in withSubs :
         placeOf(d) <= 9 =>
           /\ ret[placeOf(d)].title = replaceUnderscores(arg.items[d].name)
           /\ barsOf(ret[placeOf(d)], arg.items[d].subdomains)
           /\ SumSeq(barCounts(ret[placeOf(d)]))
                = SumSeq(subCounts(arg.items[d].subdomains))

\* a domain with four subdomains beside one with six, whose last two are
\* shown as "other"
C25_Witness ==
  /\ op = "generateSubdomainSections"
  /\ Len(arg.items) = 2 /\ Len(ret) = 2
  /\ Len(arg.items[1].subdomains) = 4 /\ Len(ret[1].bars) = 4
  /\ Len(arg.items[2].subdomains) = 6 /\ Len(ret[2].bars) = 5
  /\ ret[2].bars[5] = [name |-> otherName, count |-> 3, percentage |-> R(50)]

\* eleven domains, ten of them with a subdomain: nine sections, the first
\* for the second domain
NineSections ==
  /\ op = "generateSubdomainSections"
  /\ Cardinality(withSubs) = 10 /\ Len(ret) = 9
  /\ ret[1].title = replaceUnderscores(arg.items[2].name)

(***************************************************************************)
(* Heatmap properties                                                      *)
(***************************************************************************)
topShadeDays == { day \in 1..daysOfYear : ret[day] = 9 }
positiveDays == { i \in 1..Len(arg.data) : arg.data[i].count > 0 }

\* C26: at most four days receive the top shade (level 9), and none does
\* when four or fewer days have a positive count.
C26_AtMostFourTopDays ==
  op = "createHeatmapWithClipping" =>
    /\ Cardinality(topShadeDays) <= 4
    /\ Cardinality(positiveDays) <= 4 => topShadeDays = {}

\* what holds of the code: no top shade with four or fewer positive days,
\* and with more of them the top shade goes to every day whose count is at
\* least the fourth highest, which is four days or more
TopShadeFromFourthHighest ==
  op = "createHeatmapWithClipping" =>
    /\ Cardinality(positiveDays) <= 4 => topShadeDays = {}
    /\ Cardinality(positiveDays) > 4 =>
         /\ Cardinality(topShadeDays) >= 4
         /\ \E t \in positiveDays :
              /\ Cardinality({ i \in positiveDays : arg.data[i].count > arg.data[t].count }) < 4
              /\ topShadeDays = { arg.data[i].date :
                                    i \in { j \in positiveDays :
                                              arg.data[j].count >= arg.data[t].count } }

\* five days of the same count, all in the top shade
FiveTopDays ==
  /\ op = "createHeatmapWithClipping"
  /\ Len(arg.data) = 5
  /\ \A i \in 1..5 : arg.data[i].count = 1
  /\ topShadeDays = 1..5

(***************************************************************************)
(* Dev server properties                                                   *)
(***************************************************************************)
\* C27: every request gets a response and no failure to read the file
\* escapes; the status is 200 only for "/" or "/wrapped.html" when
\* wrapped.html is readable, 404 with the 'bun run generate' hint for those
\* two paths when the read fails, and 404 "Not found" for every other path,
\* for which the file is not read.
C27_EveryRequestAnswered ==
  op = "fetch" =>
    /\ ~ret.threw
    /\ ret.status \in {200, 404}
    /\ ret.status = 200 <=>
         (arg.req.pathname \in {"/", "/wrapped.html"} /\ arg.file.state = "readable")
    /\ ret.status = 200 => (ret.body = arg.file.content /\ ret.contentType = "text/html")
    /\ (arg.req.pathname \in {"/", "/wrapped.html"} /\ arg.file.state # "readable") =>
         /\ ret.read
         /\ ret.status = 404
         /\ ret.body = "Run 'bun run generate' first to create wrapped.html"
    /\ arg.req.pathname \notin {"/", "/wrapped.html"} =>
         (~ret.read /\ ret.status = 404 /\ ret.body = "Not found")

\* a request for the dashboard while wrapped.html is missing
C27_Witness ==
  /\ op = "fetch"
  /\ arg.req.pathname = "/wrapped.html"
  /\ arg.file.state = "ENOENT"
  /\ ret.read /\ ret.status = 404

\* a request for another page while wrapped.html is there
OtherPageNotRead ==
  /\ op = "fetch"
  /\ arg.req.pathname = "/index.html"
  /\ arg.file.state = "readable"
  /\ ~ret.read /\ ret.status = 404

(***************************************************************************)
(* Properties of a generator run                                           *)
(***************************************************************************)
failedBeforeWrite == ret.failedAt \notin {"none", "writeFile"}

RunSucceeded ==
  /\ op = "generate"
  /\ ret.pc = "done" /\ ret.failedAt = "none"
  /\ arg.fileBefore = "none" /\ ret.file = "complete"
  /\ ret.writes = 1 /\ ret.logged /\ ~ret.reported

\* the one way to a partly written file: writeFile itself stops part way
PartialAfterFailedWrite ==
  /\ op = "generate"
  /\ ret.pc = "done" /\ ret.failedAt = "writeFile"
  /\ ret.file = "partial" /\ ret.writes = 1 /\ ret.reported

\* a file is partly written only by a write that failed
PartialOnlyByFailedWrite ==
  (op = "generate" /\ ret.file = "partial") => ret.failedAt = "writeFile"

(***************************************************************************)
(* normalizeAndSlice: distinct names, totality                             *)
(***************************************************************************)
\* no two entries of list have names that are equal ignoring case
distinctIgnoringCase(list) ==
  \A j, k \in 1..Len(list) :
    sameIgnoringCase(list[j].name, list[k].name) => j = k

\* C29: for any input and limit K the call returns a list in which no two
\* names are equal ignoring case, and whose length is the minimum of K and
\* the number of distinct lower-cased names of the input.
C29_DistinctNamesForAnyInput ==
  op = "normalizeAndSlice" =>
    /\ ~ret.threw
    /\ distinctIgnoringCase(ret.value)
    /\ Len(ret.value) = Min(arg.limit, Cardinality(classesOf(arg.items)))

\* what holds of the code: the same of every call that returns
DistinctNamesWhenReturned ==
  Returned =>
    /\ distinctIgnoringCase(ret.value)
    /\ Len(ret.value) = Min(arg.limit, Cardinality(classesOf(arg.items)))

\* C30: normalizeAndSlice is total: it returns without raising an error for
\* every list of {name, count} entries, lists with two or more empty names
\* included.
C30_Total == op = "normalizeAndSlice" => ret.threw = FALSE

\* the call throws exactly when an entry with the empty name follows another
ThrowsOnRepeatedEmptyName ==
  op = "normalizeAndSlice" =>
    (ret.threw <=> Cardinality({ i \in 1..Len(arg.items) : arg.items[i].name = << >> }) >= 2)

\* two entries with the empty name: the call has thrown
RepeatedEmptyName ==
  /\ op = "normalizeAndSlice"
  /\ Len(arg.items) = 2
  /\ arg.items[1].name = << >> /\ arg.items[2].name = << >>
  /\ ret.threw

====
